---------------------------- MODULE Spec2Model ----------------------------
(***************************************************************************)
(* Model of the moderation-and-appeal workflow of the Telegram moderation  *)
(* bot: the appeal escalation engine (appeal_system.py), the approval      *)
(* allowlist (models.py, approvals.py) and the inbound-message gate        *)
(* (moderation.py).                                                        *)
(*                                                                         *)
(* Several request-serving instances run handlers concurrently.  Every     *)
(* handler is a coroutine; it is modelled as a process whose steps are     *)
(* its calls to a collaborator (document store, job broker, chat           *)
(* platform).  A single store operation is atomic; instances interleave    *)
(* between operations.  A collaborator call either succeeds or raises.     *)
(* Steps that touch no shared state (argument binding, payload parsing)    *)
(* are taken together with the handler's entry.                            *)
(***************************************************************************)
EXTENDS Integers, Sequences, FiniteSets, Bags, TLC

(***************************************************************************)
(* Bounds and input domains                                                *)
(***************************************************************************)
\* handler invocations in one behaviour of the concurrent specification
MaxCalls == 2

\* handler invocations in one behaviour of the sequential specification
MaxSeqCalls == 5

\* handler invocations in one behaviour of the allowlist specification
MaxGateCalls == 3

\* collaborator calls that raise in one behaviour
MaxFaults == 1

\* classification functions invoked in one behaviour of the worker
MaxJobs == 2

\* handler invocations in one behaviour of the dispatching handlers
MaxDispatchCalls == 2

\* is_admin / is_admin_cached lookups and membership changes in one behaviour
MaxLookups == 3

\* the clock advances in steps of TickSeconds up to MaxTime
TickSeconds == 60
MaxTime == 180

\* concurrent handler invocations (request-serving instances / tasks)
Procs == {1, 2}

Users == {42, 7}
Chats == {100, -100}
\* the admin that handle_appeal notifies (its admin_id argument)
Admins == {1}
Bots == {999}

\* APPEAL_NOTIFY_THRESHOLD = int(os.getenv("APPEAL_NOTIFY_THRESHOLD", "4"))
APPEAL_NOTIFY_THRESHOLD == 4

(***************************************************************************)
(* Strings are sequences of one-character strings, so that formatting,     *)
(* splitting and integer parsing are computed and not assumed.             *)
(***************************************************************************)
Digits == <<"0", "1", "2", "3", "4", "5", "6", "7", "8", "9">>

DigitSet == {Digits[i] : i \in 1..10}

DigitVal(c) == (CHOOSE i \in 1..10 : Digits[i] = c) - 1

RECURSIVE NatToStr(_)
NatToStr(n) ==
    IF n < 10 THEN <<Digits[n + 1]>>
    ELSE NatToStr(n \div 10) \o <<Digits[(n % 10) + 1]>>

\* mutant: the sign is dropped
IntToStr_unsigned(i) == IF i < 0 THEN NatToStr(0 - i) ELSE NatToStr(i)

\* str(i) as an f-string renders an int
IntToStr(i) == IF i < 0 THEN <<"-">> \o NatToStr(0 - i) ELSE NatToStr(i)

RECURSIVE StripLeft(_)
StripLeft(s) ==
    IF s # <<>> /\ Head(s) = " " THEN StripLeft(Tail(s)) ELSE s

RECURSIVE StripRight(_)
StripRight(s) ==
    IF s # <<>> /\ s[Len(s)] = " " THEN StripRight(SubSeq(s, 1, Len(s) - 1))
    ELSE s

\* digits, with single underscores allowed between digits
ValidDigits(s) ==
    /\ s # <<>>
    /\ \A i \in 1..Len(s) : s[i] \in DigitSet \cup {"_"}
    /\ s[1] # "_" /\ s[Len(s)] # "_"
    /\ \A i \in 1..(Len(s) - 1) : ~(s[i] = "_" /\ s[i + 1] = "_")

RECURSIVE DigitsValue(_, _)
DigitsValue(s, acc) ==
    IF s = <<>> THEN acc
    ELSE IF Head(s) = "_" THEN DigitsValue(Tail(s), acc)
    ELSE DigitsValue(Tail(s), 10 * acc + DigitVal(Head(s)))

\* int(s): ok = FALSE stands for ValueError
PyInt(s) ==
    LET t    == StripRight(StripLeft(s))
        neg  == t # <<>> /\ Head(t) = "-"
        body == IF t # <<>> /\ Head(t) \in {"+", "-"} THEN Tail(t) ELSE t
    IN  IF ValidDigits(body)
        THEN [ok |-> TRUE,
              val |-> IF neg THEN 0 - DigitsValue(body, 0) ELSE DigitsValue(body, 0)]
        ELSE [ok |-> FALSE, val |-> 0]

\* s.split(":")
RECURSIVE SplitColon(_, _, _)
SplitColon(s, cur, acc) ==
    IF s = <<>> THEN Append(acc, cur)
    ELSE IF Head(s) = ":" THEN SplitColon(Tail(s), <<>>, Append(acc, cur))
    ELSE SplitColon(Tail(s), Append(cur, Head(s)), acc)

Split(s) == SplitColon(s, <<>>, <<>>)

StartsWith(s, pre) == Len(s) >= Len(pre) /\ SubSeq(s, 1, Len(pre)) = pre


(***************************************************************************)
(* moderation.py, worker side: the reply of the reasoning service and its  *)
(* parsing.  A reply text is a sequence of lexical tokens; Python values   *)
(* are records tagged with their type.                                     *)
(***************************************************************************)
WS == [type |-> "ws"]
P(c) == [type |-> "punct", v |-> c]
Str(s) == [type |-> "str", v |-> s]
Num(n) == [type |-> "int", v |-> n]
Bool(b) == [type |-> "bool", v |-> b]
Null == [type |-> "null"]
\* text that is no JSON token
Word(s) == [type |-> "word", v |-> s]

Scalars == {"str", "int", "bool", "null"}

PyDict(items) == [type |-> "dict", items |-> items]
PyList(elems) == [type |-> "list", elems |-> elems]

\* str.strip(): leading and trailing whitespace removed
strip(text) ==
    LET idx == {i \in 1..Len(text) : text[i] # WS}
    IN  IF idx = {} THEN <<>>
        ELSE LET lo == CHOOSE i \in idx : \A j \in idx : i <= j
                 hi == CHOOSE i \in idx : \A j \in idx : i >= j
             IN  SubSeq(text, lo, hi)

\* the members of a JSON object: key ":" value, separated by ","; a later
\* duplicate of a key replaces the earlier one
RECURSIVE ParseMembers(_, _)
ParseMembers(toks, acc) ==
    IF Len(toks) >= 3 /\ toks[1].type = "str" /\ toks[2] = P(":")
       /\ toks[3].type \in Scalars
    THEN LET key == toks[1].v
             items == [k \in DOMAIN acc \cup {key} |->
                          IF k = key THEN toks[3] ELSE acc[k]]
         IN  IF Len(toks) = 3 THEN [ok |-> TRUE, val |-> items]
             ELSE IF toks[4] = P(",")
             THEN ParseMembers(SubSeq(toks, 5, Len(toks)), items)
             ELSE [ok |-> FALSE, val |-> acc]
    ELSE [ok |-> FALSE, val |-> acc]

\* the elements of a JSON array of scalars
RECURSIVE ParseElements(_, _)
ParseElements(toks, acc) ==
    IF Len(toks) >= 1 /\ toks[1].type \in Scalars
    THEN IF Len(toks) = 1 THEN [ok |-> TRUE, val |-> Append(acc, toks[1])]
         ELSE IF toks[2] = P(",")
         THEN ParseElements(SubSeq(toks, 3, Len(toks)), Append(acc, toks[1]))
         ELSE [ok |-> FALSE, val |-> acc]
    ELSE [ok |-> FALSE, val |-> acc]

\* json.loads(text): ok = FALSE when it raises
json_loads(text) ==
    LET toks == SelectSeq(text, LAMBDA t : t # WS)
        n == Len(toks)
        inner == SubSeq(toks, 2, n - 1)
        raise == [ok |-> FALSE, val |-> Null]
    IN  IF n = 0 THEN raise
        ELSE IF n = 1
        THEN IF toks[1].type \in Scalars
             THEN [ok |-> TRUE, val |-> toks[1]] ELSE raise
        ELSE IF toks[1] = P("{") /\ toks[n] = P("}")
        THEN IF n = 2 THEN [ok |-> TRUE, val |-> PyDict(<<>>)]
             ELSE LET r == ParseMembers(inner, <<>>)
                  IN  IF r.ok THEN [ok |-> TRUE, val |-> PyDict(r.val)]
                      ELSE raise
        ELSE IF toks[1] = P("[") /\ toks[n] = P("]")
        THEN IF n = 2 THEN [ok |-> TRUE, val |-> PyList(<<>>)]
             ELSE LET r == ParseElements(inner, <<>>)
                  IN  IF r.ok THEN [ok |-> TRUE, val |-> PyList(r.val)]
                      ELSE raise
        ELSE raise

\* mutant: the parsed value is returned whatever its type
safe_json_any(text, default) ==
    LET j == json_loads(text) IN IF j.ok THEN j.val ELSE default

\* safe_json(text, default): j if isinstance(j, dict) else default; default
\* when json.loads raises
safe_json(text, default) ==
    LET j == json_loads(text)
    IN  IF j.ok /\ j.val.type = "dict" THEN j.val ELSE default

\* the default of moderate_message_sync
default_verdict ==
    PyDict([action |-> Str("allow"), reason |-> Str("AI error"),
            category |-> Str("other"), severity |-> Num(1),
            should_delete |-> Bool(FALSE)])

\* the default of evaluate_appeal_sync
default_appeal ==
    PyDict([approve |-> Bool(FALSE), reason |-> Str("AI error")])

\* the object of a reply: "{" key ":" value "," ... "}"
Obj(pairs) ==
    LET RECURSIVE Body(_)
        Body(i) == IF i > Len(pairs) THEN <<>>
                   ELSE (IF i > 1 THEN <<P(","), WS>> ELSE <<>>)
                        \o <<Str(pairs[i][1]), P(":"), WS, pairs[i][2]>>
                        \o Body(i + 1)
    IN  <<P("{")>> \o Body(1) \o <<P("}")>>

\* replies of the moderation model
ModerationReplies ==
    { <<WS>> \o Obj(<<<<"action", Str("ban")>>, <<"reason", Str("spam")>>,
                     <<"category", Str("spam")>>, <<"severity", Num(5)>>,
                     <<"should_delete", Bool(TRUE)>>>>) \o <<WS>>,
      Obj(<<<<"action", Str("allow")>>, <<"reason", Str("fine")>>,
            <<"category", Str("other")>>, <<"severity", Num(1)>>,
            <<"should_delete", Bool(FALSE)>>>>),
      Obj(<<<<"action", Str("warn")>>, <<"severity", Num(2)>>>>),
      Obj(<<<<"action", Str("kick")>>, <<"severity", Num(5)>>>>),
      Obj(<<<<"action", Num(3)>>>>),
      Obj(<<<<"reason", Str("spam")>>, <<"should_delete", Bool(TRUE)>>>>),
      Obj(<<>>),
      <<P("{"), Str("action"), P(":"), Str("ban")>>,
      <<P("["), Str("ban"), P("]")>>,
      <<Str("ban")>>,
      <<Null>>,
      <<Word("Sorry"), WS, Word("unavailable")>>,
      <<>> }

\* replies of the appeal model
AppealReplies ==
    { Obj(<<<<"approve", Bool(TRUE)>>, <<"reason", Str("sorry")>>>>),
      <<WS>> \o Obj(<<<<"approve", Bool(FALSE)>>, <<"reason", Str("abusive")>>>>),
      Obj(<<<<"reason", Str("sorry")>>>>),
      Obj(<<<<"approve", Str("yes")>>>>),
      <<Bool(TRUE)>>,
      <<P("["), Bool(TRUE), P("]")>>,
      <<Word("approved")>>,
      <<>> }

(***************************************************************************)
(* State                                                                   *)
(***************************************************************************)
VARIABLES
    appeal_counts,   \* collection appeal_counts: user_id -> count (a document per user)
    appeals,         \* collection appeals: the bag of appeal-log documents
    approved_users,  \* collection approved_users: <<chat_id, user_id>> -> approved_by
    queue,           \* the RQ queue "default": jobs in enqueue order
    sent,            \* the bag of messages delivered by bot.send_message
    enqueue_task,    \* FALSE when "from enqueue_helpers import enqueue_task" failed (None)
    pc,              \* position of each handler invocation
    frame,           \* arguments, locals and outcome of each handler invocation
    budget,          \* handler invocations that may still start
    faults,          \* collaborator failures that may still happen
    stored0,         \* the appeal_counts collection as the behaviour found it
    started,         \* per user: handle_appeal invocations started
    clean,           \* per user: no counter delete and no failed increment so far
    attempts,        \* per user: send_message attempts since the counter was last deleted
    since_reset,     \* per user: increments since the counter was last deleted, -1 if never
    inline_runs,     \* classification runs awaited by a handler (run_in_executor)
    last_op,         \* per <<chat_id, user_id>>: the last completed allowlist mutation
    models_initialized, \* moderation._models_initialized
    GEMINI_API_KEY,  \* moderation.GEMINI_API_KEY is set
    ADMIN_CACHE,     \* admin_bypass.ADMIN_CACHE: chat_id -> [admins, expires]
    now,             \* time.time(), in seconds
    chat_admins      \* per chat: the administrators the platform knows

\* the state of the worker's classification functions
workerVars == <<models_initialized, GEMINI_API_KEY>>

\* the state of the administrator cache and of the platform behind it
cacheVars == <<ADMIN_CACHE, now, chat_admins>>

\* the stores, the queue and the bookkeeping of the handlers
handlerVars == <<appeal_counts, appeals, approved_users, queue, sent,
                 enqueue_task, stored0, started, clean, attempts,
                 since_reset, inline_runs, last_op>>

vars == <<appeal_counts, appeals, approved_users, queue, sent, enqueue_task,
          pc, frame, budget, faults, stored0, started, clean, attempts,
          since_reset, inline_runs, last_op, workerVars, cacheVars>>

(***************************************************************************)
(* Document-store operations (pymongo), each atomic on the store           *)
(***************************************************************************)
\* find_one({"user_id": u}): the stored count, 0 standing for "no document"
Count(coll, u) == IF u \in DOMAIN coll THEN coll[u] ELSE 0

\* find_one_and_update({"user_id": u}, {"$inc": {"count": 1}, ...}, upsert=True)
FindOneAndUpdateInc(coll, u) ==
    IF u \in DOMAIN coll THEN [coll EXCEPT ![u] = @ + 1] ELSE coll @@ (u :> 1)

\* mutant: the update sets the count ("$set": {"count": 1}) instead of "$inc"
increment_set_one(coll, user_id) ==
    LET res == IF user_id \in DOMAIN coll THEN [coll EXCEPT ![user_id] = 1]
               ELSE coll @@ (user_id :> 1)
    IN  [coll |-> res, count |-> res[user_id]]

\* mutant: the count of the document as it was before the update
\* (ReturnDocument.BEFORE)
increment_return_before(coll, user_id) ==
    [coll |-> FindOneAndUpdateInc(coll, user_id), count |-> Count(coll, user_id)]

\* _increment_appeal_count: the collection afterwards and the returned count
\* (return_document=True is ReturnDocument.AFTER)
increment_appeal_count(coll, user_id) ==
    LET res == FindOneAndUpdateInc(coll, user_id)
    IN  [coll |-> res, count |-> res[user_id]]

\* mutant: the reset decrements the count ("$inc": {"count": -1}) and
\* deletes the document only when it reaches 0
reset_by_decrement(coll, user_id) ==
    IF user_id \in DOMAIN coll /\ coll[user_id] > 1
    THEN [coll EXCEPT ![user_id] = @ - 1]
    ELSE [u \in DOMAIN coll \ {user_id} |-> coll[u]]

\* mutant: the reset writes count 0 and keeps the document
reset_to_zero(coll, user_id) ==
    IF user_id \in DOMAIN coll THEN [coll EXCEPT ![user_id] = 0] ELSE coll

\* _reset_appeal_count: delete_one({"user_id": u}); no document is no error
reset_appeal_count(coll, user_id) ==
    [u \in DOMAIN coll \ {user_id} |-> coll[u]]

\* the document models.log_appeal inserts (created_at left out)
AppealDoc(user_id, chat_id, appeal_text, approved) ==
    [user_id |-> user_id, chat_id |-> chat_id,
     appeal_text |-> appeal_text, approved |-> approved]

\* mutant: an upsert keyed by the document, which keeps one copy
log_appeal_upsert(log, user_id, chat_id, appeal_text, approved) ==
    log (+) SetToBag({AppealDoc(user_id, chat_id, appeal_text, approved)}
                        \ BagToSet(log))

\* mutant: an upsert keyed by user_id, which replaces the user's earlier
\* documents
log_appeal_replace(log, user_id, chat_id, appeal_text, approved) ==
    LET kept == {d \in BagToSet(log) : d.user_id # user_id}
    IN  [d \in kept |-> log[d]]
            (+) SetToBag({AppealDoc(user_id, chat_id, appeal_text, approved)})

\* models.log_appeal: insert_one into appeals
log_appeal(log, user_id, chat_id, appeal_text, approved) ==
    log (+) SetToBag({AppealDoc(user_id, chat_id, appeal_text, approved)})

(***************************************************************************)
(* handle_appeal: the pure parts                                           *)
(***************************************************************************)
CallbackPrefix ==
    <<"a", "p", "p", "e", "a", "l", "_", "a", "p", "p", "r", "o", "v", "e", ":">>

\* callback_data=f"appeal_approve:{user_id}:{chat_id}"
callback_data(user_id, chat_id) ==
    CallbackPrefix \o IntToStr(user_id) \o <<":">> \o IntToStr(chat_id)

\* mutant: count > APPEAL_NOTIFY_THRESHOLD
should_notify_above(count) == count > APPEAL_NOTIFY_THRESHOLD

\* if count >= APPEAL_NOTIFY_THRESHOLD
should_notify(count) == count >= APPEAL_NOTIFY_THRESHOLD

\* mutant: "still consider it handled" - return True in the except branch too
handled_always(delivered) == TRUE

\* the value handle_appeal returns once send_message was attempted:
\* return True after the send, return False in the except branch
handled_after_send(delivered) == delivered

\* mutant: the fallback count is the threshold
count_at_threshold == APPEAL_NOTIFY_THRESHOLD

\* the count handle_appeal continues with when _increment_appeal_count raised
count_on_failure == 1

\* mutant: the notification names the admin's chat, not the appeal's
Notification_admin_chat(admin_id, user_id, chat_id, count) ==
    [to |-> admin_id, user_id |-> user_id, chat_id |-> admin_id,
     count |-> count, callback_data |-> callback_data(user_id, admin_id)]

\* the message send_message delivers to the admin
Notification(admin_id, user_id, chat_id, count) ==
    [to |-> admin_id, user_id |-> user_id, chat_id |-> chat_id,
     count |-> count, callback_data |-> callback_data(user_id, chat_id)]

(***************************************************************************)
(* handle_appeal_callback: the pure parts                                  *)
(***************************************************************************)
\* mutant: the int() conversion is not guarded, a bad id is taken as 0
parse_callback_unchecked(data) ==
    LET parts == Split(data)
        none  == [status |-> "ignored", user_id |-> 0, chat_id |-> 0]
    IN  IF ~StartsWith(data, CallbackPrefix) THEN none
        ELSE IF Len(parts) < 3
             THEN [none EXCEPT !.status = "invalid_payload"]
        ELSE [status |-> "ok", user_id |-> PyInt(parts[2]).val,
              chat_id |-> PyInt(parts[3]).val]

\* what the handler does with query.data:
\*   "ignored"          not our callback (silent return)
\*   "invalid_payload"  fewer than three fields
\*   "invalid_id"       int() raised on a field
\*   "ok"               user_id and chat_id parsed
parse_callback(data) ==
    LET parts == Split(data)
        none  == [status |-> "ignored", user_id |-> 0, chat_id |-> 0]
    IN  IF ~StartsWith(data, CallbackPrefix) THEN none
        ELSE IF Len(parts) < 3
             THEN [none EXCEPT !.status = "invalid_payload"]
        ELSE IF ~PyInt(parts[2]).ok \/ ~PyInt(parts[3]).ok
             THEN [none EXCEPT !.status = "invalid_id"]
        ELSE [status |-> "ok", user_id |-> PyInt(parts[2]).val,
              chat_id |-> PyInt(parts[3]).val]

(***************************************************************************)
(* Handler invocations                                                     *)
(***************************************************************************)
NoFrame ==
    [kind |-> "idle", user_id |-> 0, chat_id |-> 0, admin_id |-> 0,
     data |-> <<>>, count |-> 0, ret |-> FALSE, raised |-> FALSE,
     update |-> <<>>, gate |-> "none", rules_text |-> "", inline |-> FALSE,
     total |-> 0, removed |-> 0,
     log |-> "none", enq |-> "none", inc |-> "none", notify |-> "none",
     parse |-> "none", reset |-> "none", edit |-> "none", reply |-> "none",
     was_absent |-> FALSE,
     init |-> "none", call |-> "none", text |-> <<>>, result |-> Null,
     started_at |-> 0, hit |-> FALSE, calls |-> <<>>, refresh |-> "none", member |-> "none"]

Goto(p, label) == pc' = [pc EXCEPT ![p] = label]

\* queue.enqueue(func, *args): the job put on the queue
Job(func_path, args) == [func |-> func_path, args |-> args]

\* q.enqueue(func, *args, ...): one more job on the queue
Enqueue(q, job) == q (+) SetToBag({job})

\* mutant: the job lands on the queue although the call raised
enqueue_task_lands(q, job, ok) == Enqueue(q, job)

\* enqueue_task(func_path, *args): the queue after the call; when the import
\* of the function or queue.enqueue raises, no job was put
enqueue_task_call(q, job, ok) == IF ok THEN Enqueue(q, job) ELSE q

\* mutant: an exception of the step ends the handler
after_try_unguarded(ok, next) == IF ok THEN next ELSE "done"

\* try: <step> except Exception: print(...): the statement after the try is
\* reached whether the step returned or raised
after_try(ok, next) == next

\* a collaborator call returns (TRUE) or raises (FALSE)
Outcomes == IF faults > 0 THEN {TRUE, FALSE} ELSE {TRUE}

Spend(ok) == faults' = IF ok THEN faults ELSE faults - 1

\* the handler has returned to the framework
Finish(p) ==
    /\ pc[p] = "done"
    /\ Goto(p, "idle")
    /\ frame' = [frame EXCEPT ![p] = NoFrame]
    /\ UNCHANGED <<since_reset, inline_runs, last_op>>
    /\ UNCHANGED <<appeal_counts, appeals, approved_users, queue, sent,
                   enqueue_task, budget, faults, stored0, started, clean,
                   attempts>>
    /\ UNCHANGED <<workerVars, cacheVars>>

(***************************************************************************)
(* handle_appeal(bot, user_id, chat_id, reason, admin_id)                  *)
(***************************************************************************)
\* entry, then models.log_appeal(..., approved=False) inside try/except
AppealLog(p) ==
    /\ pc[p] = "idle"
    /\ budget > 0
    /\ budget' = budget - 1
    /\ \E u \in Users, c \in Chats, a \in Admins, ok \in Outcomes :
          /\ started' = [started EXCEPT ![u] = @ + 1]
          /\ appeals' = IF ok THEN log_appeal(appeals, u, c, "reason", FALSE)
                        ELSE appeals
          /\ frame' = [frame EXCEPT ![p] =
                 [NoFrame EXCEPT !.kind = "appeal", !.user_id = u,
                                 !.chat_id = c, !.admin_id = a,
                                 !.log = IF ok THEN "ok" ELSE "failed"]]
          /\ Spend(ok)
          /\ Goto(p, after_try(ok, "a_enqueue"))
    /\ UNCHANGED <<since_reset, inline_runs, last_op>>
    /\ UNCHANGED <<appeal_counts, approved_users, queue, sent, enqueue_task,
                   stored0, clean, attempts>>
    /\ UNCHANGED <<workerVars, cacheVars>>

\* if enqueue_task: enqueue_task("moderation.evaluate_appeal_sync", reason),
\* else skip; inside try/except
AppealEnqueue(p) ==
    /\ pc[p] = "a_enqueue"
    /\ IF enqueue_task
       THEN \E ok \in Outcomes :
               /\ queue' = enqueue_task_call(queue,
                               Job("moderation.evaluate_appeal_sync", <<"reason">>),
                               ok)
               /\ frame' = [frame EXCEPT ![p].enq = IF ok THEN "ok" ELSE "failed"]
               /\ Spend(ok)
               /\ Goto(p, after_try(ok, "a_inc"))
       ELSE /\ frame' = [frame EXCEPT ![p].enq = "unavailable"]
            /\ Goto(p, "a_inc")
            /\ UNCHANGED <<queue, faults>>
    /\ UNCHANGED <<since_reset, inline_runs, last_op>>
    /\ UNCHANGED <<appeal_counts, appeals, approved_users, sent, enqueue_task,
                   budget, stored0, started, clean, attempts>>
    /\ UNCHANGED <<workerVars, cacheVars>>

\* count = await _increment_appeal_count(user_id), or count = 1 when it raised
AppealIncrement(p) ==
    /\ pc[p] = "a_inc"
    /\ \E ok \in Outcomes :
          LET u == frame[p].user_id
              r == increment_appeal_count(appeal_counts, u)
          IN  /\ appeal_counts' = IF ok THEN r.coll ELSE appeal_counts
              /\ frame' = [frame EXCEPT
                     ![p].inc = IF ok THEN "ok" ELSE "failed",
                     ![p].count = IF ok THEN r.count ELSE count_on_failure]
              /\ clean' = [clean EXCEPT ![u] = @ /\ ok]
              /\ since_reset' = [since_reset EXCEPT
                     ![u] = IF ok /\ @ >= 0 THEN @ + 1 ELSE @]
              /\ Spend(ok)
    /\ UNCHANGED <<inline_runs, last_op>>
    /\ Goto(p, "a_notify")
    /\ UNCHANGED <<appeals, approved_users, queue, sent, enqueue_task, budget,
                   stored0, started, attempts>>
    /\ UNCHANGED <<workerVars, cacheVars>>

\* if count >= APPEAL_NOTIFY_THRESHOLD: send_message, return True / False;
\* otherwise return False
AppealNotify(p) ==
    /\ pc[p] = "a_notify"
    /\ LET f == frame[p]
       IN  IF should_notify(f.count)
           THEN \E ok \in Outcomes :
                   /\ attempts' = [attempts EXCEPT ![f.user_id] = @ + 1]
                   /\ sent' = IF ok
                              THEN sent (+) SetToBag({Notification(f.admin_id,
                                       f.user_id, f.chat_id, f.count)})
                              ELSE sent
                   /\ frame' = [frame EXCEPT
                          ![p].notify = IF ok THEN "sent" ELSE "failed",
                          ![p].ret = handled_after_send(ok)]
                   /\ Spend(ok)
           ELSE /\ frame' = [frame EXCEPT ![p].ret = FALSE]
                /\ UNCHANGED <<sent, attempts, faults>>
    /\ Goto(p, "done")
    /\ UNCHANGED <<since_reset, inline_runs, last_op>>
    /\ UNCHANGED <<appeal_counts, appeals, approved_users, queue,
                   enqueue_task, budget, stored0, started, clean>>
    /\ UNCHANGED <<workerVars, cacheVars>>

(***************************************************************************)
(* handle_appeal_callback(update, context)                                 *)
(***************************************************************************)
\* "approve:42:100": the token without the prefix the handler expects
TokenNoPrefix ==
    <<"a", "p", "p", "r", "o", "v", "e", ":", "4", "2", ":", "1", "0", "0">>

\* "approve:abc"
TokenNoPrefixShort == <<"a", "p", "p", "r", "o", "v", "e", ":", "a", "b", "c">>

\* "appeal_approve:abc"
TokenTwoFields == CallbackPrefix \o <<"a", "b", "c">>

\* "appeal_approve:abc:100"
TokenBadId == CallbackPrefix \o <<"a", "b", "c", ":", "1", "0", "0">>

\* the payloads a callback query may carry
CallbackData ==
    {callback_data(u, c) : u \in Users, c \in Chats}
        \cup {TokenNoPrefix, TokenNoPrefixShort, TokenTwoFields, TokenBadId}

\* entry up to the first store operation: await query.answer() (raising into
\* the outer except); the prefix test, split and int(); a rejected payload is
\* reported with edit_message_text (which may raise into the outer except)
\* and the handler returns
CallbackParse(p) ==
    /\ pc[p] = "idle"
    /\ budget > 0
    /\ budget' = budget - 1
    /\ \E d \in CallbackData, answered \in Outcomes :
          LET r == parse_callback(d)
              f == [NoFrame EXCEPT !.kind = "callback", !.data = d]
              g == [f EXCEPT !.parse = r.status]
          IN  IF ~answered
              THEN /\ frame' = [frame EXCEPT ![p] = f]
                   /\ Goto(p, "done")
                   /\ Spend(FALSE)
              ELSE CASE r.status = "ok" ->
                          /\ frame' = [frame EXCEPT ![p] =
                                 [g EXCEPT !.user_id = r.user_id,
                                           !.chat_id = r.chat_id]]
                          /\ Goto(p, "c_log")
                          /\ Spend(TRUE)
                     [] r.status = "ignored" ->
                          /\ frame' = [frame EXCEPT ![p] = g]
                          /\ Goto(p, "done")
                          /\ Spend(TRUE)
                     [] OTHER ->
                          \E ok \in Outcomes :
                             /\ frame' = [frame EXCEPT ![p] =
                                    [g EXCEPT
                                       !.edit = IF ok THEN "ok" ELSE "failed",
                                       !.reply = IF ok THEN r.status ELSE "none"]]
                             /\ Goto(p, "done")
                             /\ Spend(ok)
    /\ UNCHANGED <<since_reset, inline_runs, last_op>>
    /\ UNCHANGED <<appeal_counts, appeals, approved_users, queue, sent,
                   enqueue_task, stored0, started, clean, attempts>>
    /\ UNCHANGED <<workerVars, cacheVars>>

\* models.log_appeal(..., "Approved by admin", approved=True) inside try/except
CallbackLog(p) ==
    /\ pc[p] = "c_log"
    /\ \E ok \in Outcomes :
          /\ appeals' = IF ok
                        THEN log_appeal(appeals, frame[p].user_id,
                                        frame[p].chat_id, "Approved by admin", TRUE)
                        ELSE appeals
          /\ frame' = [frame EXCEPT ![p].log = IF ok THEN "ok" ELSE "failed"]
          /\ Spend(ok)
    /\ Goto(p, "c_reset")
    /\ UNCHANGED <<since_reset, inline_runs, last_op>>
    /\ UNCHANGED <<appeal_counts, approved_users, queue, sent, enqueue_task,
                   budget, stored0, started, clean, attempts>>
    /\ UNCHANGED <<workerVars, cacheVars>>

\* await _reset_appeal_count(user_id) inside try/except
CallbackReset(p) ==
    /\ pc[p] = "c_reset"
    /\ \E ok \in Outcomes :
          LET u == frame[p].user_id
          IN  /\ appeal_counts' = IF ok THEN reset_appeal_count(appeal_counts, u)
                                  ELSE appeal_counts
              /\ frame' = [frame EXCEPT
                     ![p].reset = IF ok THEN "ok" ELSE "failed",
                     ![p].was_absent = ok /\ u \notin DOMAIN appeal_counts]
              /\ clean' = [x \in Users |-> clean[x] /\ ~(ok /\ x = u)]
              /\ attempts' = [x \in Users |->
                                 IF ok /\ x = u THEN 0 ELSE attempts[x]]
              /\ since_reset' = [x \in Users |->
                                    IF ok /\ x = u THEN 0 ELSE since_reset[x]]
              /\ Spend(ok)
    /\ UNCHANGED <<inline_runs, last_op>>
    /\ Goto(p, "c_ack")
    /\ UNCHANGED <<appeals, approved_users, queue, sent, enqueue_task, budget,
                   stored0, started>>
    /\ UNCHANGED <<workerVars, cacheVars>>

\* edit_message_text("User ... approved by admin ...") inside try/except: pass
CallbackAck(p) ==
    /\ pc[p] = "c_ack"
    /\ \E ok \in Outcomes :
          /\ frame' = [frame EXCEPT
                 ![p].edit = IF ok THEN "ok" ELSE "failed",
                 ![p].reply = IF ok THEN "approved" ELSE "none"]
          /\ Spend(ok)
    /\ Goto(p, "done")
    /\ UNCHANGED <<since_reset, inline_runs, last_op>>
    /\ UNCHANGED <<appeal_counts, appeals, approved_users, queue, sent,
                   enqueue_task, budget, stored0, started, clean, attempts>>
    /\ UNCHANGED <<workerVars, cacheVars>>

(***************************************************************************)
(* The approval allowlist: models.py                                       *)
(***************************************************************************)
\* mutant: $setOnInsert instead of $set, which keeps the first approver
approve_keep_first(coll, chat_id, user_id, approver_id) ==
    IF <<chat_id, user_id>> \in DOMAIN coll
    THEN coll
    ELSE coll @@ (<<chat_id, user_id>> :> approver_id)

\* approve_user_db: update_one({chat_id, user_id}, {"$set": {...}}, upsert=True)
approve_user_db(coll, chat_id, user_id, approver_id) ==
    IF <<chat_id, user_id>> \in DOMAIN coll
    THEN [coll EXCEPT ![<<chat_id, user_id>>] = approver_id]
    ELSE coll @@ (<<chat_id, user_id>> :> approver_id)

\* unapprove_user_db: delete_one({chat_id, user_id})
unapprove_user_db(coll, chat_id, user_id) ==
    [key \in DOMAIN coll \ {<<chat_id, user_id>>} |-> coll[key]]

\* is_user_approved_db: bool(find_one({chat_id, user_id}))
is_user_approved_db(coll, chat_id, user_id) ==
    <<chat_id, user_id>> \in DOMAIN coll

\* mutant: delete_one instead of delete_many
unapprove_all_first(coll, chat_id) ==
    LET hit == {key \in DOMAIN coll : key[1] = chat_id}
        one == IF hit = {} THEN {} ELSE {CHOOSE key \in hit : TRUE}
    IN  [coll |-> [key \in DOMAIN coll \ one |-> coll[key]],
         deleted_count |-> Cardinality(one)]

\* mutant: delete_many({}) instead of delete_many({chat_id})
unapprove_all_everywhere(coll, chat_id) ==
    [coll |-> <<>>, deleted_count |-> Cardinality(DOMAIN coll)]

\* unapprove_all_db: delete_many({chat_id}), returning res.deleted_count
unapprove_all_db(coll, chat_id) ==
    LET hit == {key \in DOMAIN coll : key[1] = chat_id}
    IN  [coll |-> [key \in DOMAIN coll \ hit |-> coll[key]],
         deleted_count |-> Cardinality(hit)]

\* count_approved_db: count_documents({chat_id})
count_approved_db(coll, chat_id) ==
    Cardinality({key \in DOMAIN coll : key[1] = chat_id})

\* approvals.should_moderate: not is_user_approved_db(chat_id, user_id)
should_moderate(coll, chat_id, user_id) ==
    ~is_user_approved_db(coll, chat_id, user_id)

(***************************************************************************)
(* The allowlist commands: approvals.py.  Nothing in them is guarded: a     *)
(* store or platform error propagates out of the handler.                  *)
(***************************************************************************)
\* what the command's checks find: the caller is an admin and (for /approve
\* and /unapprove) the command replies to a message
CmdChecks == {"ok", "not_admin", "no_reply"}

\* approve_cmd up to approve_user_db, called by one of the given admins
approve_cmd(p, approvers) ==
    /\ pc[p] = "idle"
    /\ budget > 0
    /\ budget' = budget - 1
    /\ \E c \in Chats, u \in Users, a \in approvers, chk \in CmdChecks,
          ok \in Outcomes :
          LET f == [NoFrame EXCEPT !.kind = "approve", !.chat_id = c,
                                   !.user_id = u, !.admin_id = a]
          IN  /\ Spend(ok)
              /\ IF chk # "ok" /\ ok
                 THEN /\ frame' = [frame EXCEPT ![p] = [f EXCEPT !.reply = chk]]
                      /\ Goto(p, "done")
                      /\ UNCHANGED <<approved_users, last_op>>
                 ELSE IF ~ok
                 THEN /\ frame' = [frame EXCEPT ![p] = [f EXCEPT !.raised = TRUE]]
                      /\ Goto(p, "done")
                      /\ UNCHANGED <<approved_users, last_op>>
                 ELSE /\ approved_users' = approve_user_db(approved_users, c, u, a)
                      /\ last_op' = [last_op EXCEPT ![<<c, u>>] = "approve"]
                      /\ frame' = [frame EXCEPT ![p] = f]
                      /\ Goto(p, "ap_count")
    /\ UNCHANGED <<appeal_counts, appeals, queue, sent, enqueue_task, stored0,
                   started, clean, attempts, since_reset, inline_runs>>
    /\ UNCHANGED <<workerVars, cacheVars>>

\* approve_cmd called by the chat's admin
ApproveCmd(p) == approve_cmd(p, Admins)

\* total = count_approved_db(chat_id), then the reply
ApproveCount(p) ==
    /\ pc[p] = "ap_count"
    /\ \E ok \in Outcomes :
          /\ Spend(ok)
          /\ frame' = [frame EXCEPT
                 ![p].total = IF ok THEN count_approved_db(approved_users,
                                                           frame[p].chat_id)
                              ELSE 0,
                 ![p].reply = IF ok THEN "approved" ELSE "none",
                 ![p].raised = ~ok]
    /\ Goto(p, "done")
    /\ UNCHANGED <<appeal_counts, appeals, approved_users, queue, sent,
                   enqueue_task, budget, stored0, started, clean, attempts,
                   since_reset, inline_runs, last_op>>
    /\ UNCHANGED <<workerVars, cacheVars>>

\* unapprove_cmd: the checks, unapprove_user_db, the reply
UnapproveCmd(p) ==
    /\ pc[p] = "idle"
    /\ budget > 0
    /\ budget' = budget - 1
    /\ \E c \in Chats, u \in Users, chk \in CmdChecks, ok \in Outcomes :
          LET f == [NoFrame EXCEPT !.kind = "unapprove", !.chat_id = c,
                                   !.user_id = u]
          IN  /\ Spend(ok)
              /\ IF chk # "ok" /\ ok
                 THEN /\ frame' = [frame EXCEPT ![p] = [f EXCEPT !.reply = chk]]
                      /\ UNCHANGED <<approved_users, last_op>>
                 ELSE IF ~ok
                 THEN /\ frame' = [frame EXCEPT ![p] = [f EXCEPT !.raised = TRUE]]
                      /\ UNCHANGED <<approved_users, last_op>>
                 ELSE /\ approved_users' = unapprove_user_db(approved_users, c, u)
                      /\ last_op' = [last_op EXCEPT ![<<c, u>>] = "unapprove"]
                      /\ frame' = [frame EXCEPT ![p] =
                                      [f EXCEPT !.reply = "unapproved"]]
    /\ Goto(p, "done")
    /\ UNCHANGED <<appeal_counts, appeals, queue, sent, enqueue_task, stored0,
                   started, clean, attempts, since_reset, inline_runs>>
    /\ UNCHANGED <<workerVars, cacheVars>>

\* unapprove_all_cmd: the admin check, unapprove_all_db, the reply with the
\* number removed
UnapproveAllCmd(p) ==
    /\ pc[p] = "idle"
    /\ budget > 0
    /\ budget' = budget - 1
    /\ \E c \in Chats, chk \in {"ok", "not_admin"}, ok \in Outcomes :
          LET f == [NoFrame EXCEPT !.kind = "unapprove_all", !.chat_id = c]
              r == unapprove_all_db(approved_users, c)
          IN  /\ Spend(ok)
              /\ IF chk # "ok" /\ ok
                 THEN /\ frame' = [frame EXCEPT ![p] = [f EXCEPT !.reply = chk]]
                      /\ UNCHANGED <<approved_users, last_op>>
                 ELSE IF ~ok
                 THEN /\ frame' = [frame EXCEPT ![p] = [f EXCEPT !.raised = TRUE]]
                      /\ UNCHANGED <<approved_users, last_op>>
                 ELSE /\ approved_users' = r.coll
                      /\ last_op' = [key \in Chats \X Users |->
                                        IF key[1] = c THEN "unapprove"
                                        ELSE last_op[key]]
                      /\ frame' = [frame EXCEPT ![p] =
                                      [f EXCEPT !.reply = "cleared",
                                                !.removed = r.deleted_count]]
    /\ Goto(p, "done")
    /\ UNCHANGED <<appeal_counts, appeals, queue, sent, enqueue_task, stored0,
                   started, clean, attempts, since_reset, inline_runs>>
    /\ UNCHANGED <<workerVars, cacheVars>>

(***************************************************************************)
(* moderation.handle_message(update, context)                              *)
(***************************************************************************)
\* what handle_message reads of an update: is there a message and a chat,
\* the chat type, the sender (None, a bot, a user) and the ids
Updates ==
    {[has_message |-> FALSE, chat_type |-> "supergroup", sender |-> "none",
      chat_id |-> 0, user_id |-> 0]}
    \cup
    {[has_message |-> TRUE, chat_type |-> "private", sender |-> "user",
      chat_id |-> u, user_id |-> u] : u \in Users}
    \cup
    {[has_message |-> TRUE, chat_type |-> "supergroup", sender |-> "none",
      chat_id |-> c, user_id |-> 0] : c \in Chats}
    \cup
    {[has_message |-> TRUE, chat_type |-> "supergroup", sender |-> "bot",
      chat_id |-> c, user_id |-> b] : c \in Chats, b \in Bots}
    \cup
    {[has_message |-> TRUE, chat_type |-> "supergroup", sender |-> "user",
      chat_id |-> c, user_id |-> u] : c \in Chats, u \in Users}

\* the basic guards: no update / message / chat, a private chat, a bot
skips_moderation(upd) ==
    \/ ~upd.has_message
    \/ upd.chat_type = "private"
    \/ upd.sender = "bot"

\* rules = get_rules_db(chat_id); rules_text = "" when there are none or
\* when the read raises
get_rules_text(ok) == IF ok THEN "rules" ELSE ""

\* the number of failed calls among the outcomes
Failures(oks) == Cardinality({i \in DOMAIN oks : ~oks[i]})

\* mutant: a check that raised returns like an approved user
moderate_fail_open(ok, moderate) == ok /\ moderate

\* try: if not should_moderate(...): return / except Exception: pass -- the
\* handler goes on unless the check returned and found the user approved
moderate_after_check(ok, moderate) == ~ok \/ moderate

\* the guards, the allowlist check and the rules read: should_moderate reads
\* the store; when it raises the handler goes on to moderate
MessageGate(p) ==
    /\ pc[p] = "idle"
    /\ budget > 0
    /\ budget' = budget - 1
    /\ \E upd \in Updates :
          LET f == [NoFrame EXCEPT !.kind = "message", !.update = upd,
                                   !.chat_id = upd.chat_id,
                                   !.user_id = upd.user_id]
          IN  IF skips_moderation(upd)
              THEN /\ frame' = [frame EXCEPT ![p] = [f EXCEPT !.gate = "skipped"]]
                   /\ Goto(p, "done")
                   /\ UNCHANGED faults
              ELSE IF upd.sender = "none"
              THEN \E okr \in Outcomes :
                      /\ Spend(okr)
                      /\ frame' = [frame EXCEPT ![p] =
                             [f EXCEPT !.gate = "no_user",
                                       !.rules_text = get_rules_text(okr)]]
                      /\ Goto(p, "m_enqueue")
              ELSE \E okg \in BOOLEAN, okr \in BOOLEAN :
                      /\ Failures(<<okg, okr>>) <= faults
                      /\ IF ~moderate_after_check(okg,
                               should_moderate(approved_users, upd.chat_id,
                                               upd.user_id))
                         THEN /\ okr
                              /\ UNCHANGED faults
                              /\ frame' = [frame EXCEPT ![p] =
                                     [f EXCEPT !.gate =
                                         IF okg THEN "approved" ELSE "error"]]
                              /\ Goto(p, "done")
                         ELSE /\ faults' = faults - Failures(<<okg, okr>>)
                              /\ frame' = [frame EXCEPT ![p] =
                                     [f EXCEPT !.gate =
                                         IF okg THEN "not_approved" ELSE "error",
                                       !.rules_text = get_rules_text(okr)]]
                              /\ Goto(p, "m_enqueue")
    /\ UNCHANGED <<appeal_counts, appeals, approved_users, queue, sent,
                   enqueue_task, stored0, started, clean, attempts,
                   since_reset, inline_runs, last_op>>
    /\ UNCHANGED <<workerVars, cacheVars>>

\* if enqueue_task: enqueue process_message_sync; else await
\* run_in_executor(process_message_sync); inside try/except
MessageEnqueue(p) ==
    /\ pc[p] = "m_enqueue"
    /\ IF enqueue_task
       THEN \E ok \in Outcomes :
               /\ Spend(ok)
               /\ queue' = enqueue_task_call(queue,
                               Job("moderation.process_message_sync",
                                   <<frame[p].update, frame[p].rules_text>>),
                               ok)
               /\ frame' = [frame EXCEPT ![p].enq = IF ok THEN "ok" ELSE "failed"]
               /\ UNCHANGED inline_runs
       ELSE /\ inline_runs' = inline_runs + 1
            /\ frame' = [frame EXCEPT ![p].enq = "unavailable",
                                      ![p].inline = TRUE]
            /\ UNCHANGED <<queue, faults>>
    /\ Goto(p, "done")
    /\ UNCHANGED <<appeal_counts, appeals, approved_users, sent, enqueue_task,
                   budget, stored0, started, clean, attempts, since_reset,
                   last_op>>
    /\ UNCHANGED <<workerVars, cacheVars>>

\* the allowlist commands and inbound messages, handled concurrently
GateStep(p) ==
    \/ ApproveCmd(p)
    \/ ApproveCount(p)
    \/ UnapproveCmd(p)
    \/ UnapproveAllCmd(p)
    \/ MessageGate(p)
    \/ MessageEnqueue(p)
    \/ Finish(p)

(***************************************************************************)
(* The appeal escalation engine                                            *)
(***************************************************************************)
Step(p) ==
    \/ AppealLog(p)
    \/ AppealEnqueue(p)
    \/ AppealIncrement(p)
    \/ AppealNotify(p)
    \/ CallbackParse(p)
    \/ CallbackLog(p)
    \/ CallbackReset(p)
    \/ CallbackAck(p)
    \/ Finish(p)

\* what the appeal_counts collection may hold when the processes start: the
\* counts persist across restarts; a user has no document, or one with
\* count >= 1
StoredCounts ==
    UNION {[S -> {APPEAL_NOTIFY_THRESHOLD - 1}] : S \in SUBSET Users}

\* an import failure of enqueue_helpers counts as one of the k failures
InitWith(counts, n, k) ==
    /\ appeal_counts = counts
    /\ stored0 = counts
    /\ appeals = EmptyBag
    /\ approved_users = <<>>
    /\ queue = EmptyBag
    /\ sent = EmptyBag
    /\ \/ enqueue_task = TRUE /\ faults = k
       \/ k > 0 /\ enqueue_task = FALSE /\ faults = k - 1
    /\ pc = [p \in Procs |-> "idle"]
    /\ frame = [p \in Procs |-> NoFrame]
    /\ budget = n
    /\ started = [u \in Users |-> 0]
    /\ clean = [u \in Users |-> TRUE]
    /\ attempts = [u \in Users |-> 0]
    /\ since_reset = [u \in Users |-> -1]
    /\ inline_runs = 0
    /\ last_op = [key \in Chats \X Users |-> "none"]

\* the worker has not initialised its models
WorkerIdle ==
    /\ models_initialized = FALSE
    /\ GEMINI_API_KEY = TRUE

\* the administrator cache is empty
CacheIdle ==
    /\ ADMIN_CACHE = <<>>
    /\ now = 0
    /\ chat_admins = [c \in Chats |-> Admins]

\* handlers invoked concurrently, on a store that holds earlier counts, with
\* collaborators that may fail
Init ==
    /\ \E counts \in StoredCounts : InitWith(counts, MaxCalls, MaxFaults)
    /\ WorkerIdle
    /\ CacheIdle

Next == \E p \in Procs : Step(p)

Spec == Init /\ [][Next]_vars

\* handlers invoked one after the other, on an empty store, with every
\* collaborator succeeding
InitSeq == InitWith(<<>>, MaxSeqCalls, 0) /\ WorkerIdle /\ CacheIdle

NextSeq == Step(1)

SpecSeq == InitSeq /\ [][NextSeq]_vars

InitGate == InitWith(<<>>, MaxGateCalls, MaxFaults) /\ WorkerIdle /\ CacheIdle

NextGate == \E p \in Procs : GateStep(p)

SpecGate == InitGate /\ [][NextGate]_vars


(***************************************************************************)
(* moderation.py, worker side: the classification functions an RQ worker   *)
(* runs                                                                    *)
(***************************************************************************)
\* the functions a job or a caller invokes
WorkerFuncs ==
    {"process_message_sync", "moderate_message_sync", "evaluate_appeal_sync"}

\* {"status": "error", "error": str(e)} of process_message_sync
StatusError == PyDict([status |-> Str("error")])

\* {"status": "ok", "moderation": mod_result} of process_message_sync
StatusOk(mod_result) == PyDict([status |-> Str("ok"), moderation |-> mod_result])

\* the function is entered and calls _init_models(): nothing to do when the
\* models are initialised, RuntimeError when no API key is set; the call is
\* outside the try of moderate_message_sync and of evaluate_appeal_sync, and
\* inside the try of process_message_sync
InitModels(p) ==
    /\ pc[p] = "idle"
    /\ budget > 0
    /\ budget' = budget - 1
    /\ \E func \in WorkerFuncs :
          LET f == [NoFrame EXCEPT !.kind = func]
          IN  IF models_initialized
              THEN /\ frame' = [frame EXCEPT ![p] = [f EXCEPT !.init = "skipped"]]
                   /\ Goto(p, "w_generate")
                   /\ UNCHANGED models_initialized
              ELSE IF ~GEMINI_API_KEY
              THEN /\ frame' = [frame EXCEPT ![p] =
                          [f EXCEPT !.init = "raised",
                                    !.raised = func # "process_message_sync",
                                    !.result = IF func = "process_message_sync"
                                               THEN StatusError ELSE Null]]
                   /\ Goto(p, "done")
                   /\ UNCHANGED models_initialized
              ELSE /\ models_initialized' = TRUE
                   /\ frame' = [frame EXCEPT ![p] = [f EXCEPT !.init = "ok"]]
                   /\ Goto(p, "w_generate")
    /\ UNCHANGED <<handlerVars, faults, GEMINI_API_KEY, cacheVars>>

\* moderate_message_sync: generate_content, then safe_json(res.text.strip(),
\* default); default when the call or res.text raises
ModerateMessage(p) ==
    /\ pc[p] = "w_generate"
    /\ frame[p].kind \in {"process_message_sync", "moderate_message_sync"}
    /\ \E ok \in Outcomes :
          /\ Spend(ok)
          /\ \E reply \in IF ok THEN ModerationReplies ELSE {<<>>} :
                LET data == IF ok THEN safe_json(strip(reply), default_verdict)
                            ELSE default_verdict
                IN  frame' = [frame EXCEPT
                        ![p].call = IF ok THEN "ok" ELSE "raised",
                        ![p].text = reply,
                        ![p].result =
                            IF frame[p].kind = "process_message_sync"
                            THEN StatusOk(data) ELSE data]
    /\ Goto(p, "done")
    /\ UNCHANGED <<handlerVars, budget, workerVars, cacheVars>>

\* evaluate_appeal_sync: generate_content, then safe_json(res.text.strip(),
\* default); default when the call or res.text raises
EvaluateAppeal(p) ==
    /\ pc[p] = "w_generate"
    /\ frame[p].kind = "evaluate_appeal_sync"
    /\ \E ok \in Outcomes :
          /\ Spend(ok)
          /\ \E reply \in IF ok THEN AppealReplies ELSE {<<>>} :
                frame' = [frame EXCEPT
                    ![p].call = IF ok THEN "ok" ELSE "raised",
                    ![p].text = reply,
                    ![p].result = IF ok
                                  THEN safe_json(strip(reply), default_appeal)
                                  ELSE default_appeal]
    /\ Goto(p, "done")
    /\ UNCHANGED <<handlerVars, budget, workerVars, cacheVars>>

\* the worker processes and direct callers of the classification functions
WorkerStep(p) ==
    \/ InitModels(p)
    \/ ModerateMessage(p)
    \/ EvaluateAppeal(p)
    \/ Finish(p)

InitWorker ==
    /\ InitWith(<<>>, MaxJobs, MaxFaults)
    /\ models_initialized = FALSE
    /\ GEMINI_API_KEY \in BOOLEAN
    /\ CacheIdle

NextWorker == \E p \in Procs : WorkerStep(p)

SpecWorker == InitWorker /\ [][NextWorker]_vars

(***************************************************************************)
(* admin_bypass.py: is_admin and is_admin_cached                           *)
(***************************************************************************)
\* CACHE_TTL = 120  # 2 minutes
CACHE_TTL == 120

\* member.status of get_chat_member(chat_id, user_id)
member_status(admins, chat_id, user_id) ==
    IF user_id \in admins[chat_id] THEN "administrator" ELSE "member"

\* mutant: an error of get_chat_member answers True
is_admin_fail_open(ok, status) ==
    ~ok \/ status \in {"administrator", "creator"}

\* is_admin: member.status in ("administrator", "creator"), False when
\* get_chat_member raised
is_admin(ok, status) ==
    IF ok THEN status \in {"administrator", "creator"} ELSE FALSE

\* mutant: the cache entry is never used
cache_never_valid(cache, chat_id, t) == FALSE

\* cache = ADMIN_CACHE.get(chat_id, {}); cache and cache.get("expires", 0) > now
cache_valid(cache, chat_id, t) ==
    chat_id \in DOMAIN cache /\ cache[chat_id].expires > t

\* mutant: the entry is stored with no time to live
cache_store_expired(cache, chat_id, admin_ids, t) ==
    [c \in DOMAIN cache \cup {chat_id} |->
        IF c = chat_id THEN [admins |-> admin_ids, expires |-> t]
        ELSE cache[c]]

\* ADMIN_CACHE[chat_id] = {"admins": admin_ids, "expires": now + CACHE_TTL}
cache_store(cache, chat_id, admin_ids, t) ==
    [c \in DOMAIN cache \cup {chat_id} |->
        IF c = chat_id THEN [admins |-> admin_ids, expires |-> t + CACHE_TTL]
        ELSE cache[c]]

\* is_admin_cached up to the await of get_chat_administrators: now is read,
\* a valid entry answers, otherwise the refresh call is issued
CachedLookup(p) ==
    /\ pc[p] = "idle"
    /\ budget > 0
    /\ budget' = budget - 1
    /\ \E c \in Chats, u \in Users :
          LET f == [NoFrame EXCEPT !.kind = "is_admin_cached", !.chat_id = c,
                                   !.user_id = u, !.started_at = now]
          IN  IF cache_valid(ADMIN_CACHE, c, now)
              THEN /\ frame' = [frame EXCEPT ![p] =
                          [f EXCEPT !.hit = TRUE,
                                    !.ret = u \in ADMIN_CACHE[c].admins]]
                   /\ Goto(p, "done")
              ELSE /\ frame' = [frame EXCEPT ![p] =
                          [f EXCEPT !.calls = <<"get_chat_administrators">>]]
                   /\ Goto(p, "k_refresh")
    /\ UNCHANGED <<handlerVars, faults, workerVars, cacheVars>>

\* get_chat_administrators returns: the entry is written with the now read
\* at entry; or it raises: is_admin is called
CachedRefresh(p) ==
    /\ pc[p] = "k_refresh"
    /\ \E ok \in Outcomes :
          /\ Spend(ok)
          /\ IF ok
             THEN LET admin_ids == chat_admins[frame[p].chat_id]
                  IN  /\ ADMIN_CACHE' = cache_store(ADMIN_CACHE, frame[p].chat_id,
                                                    admin_ids, frame[p].started_at)
                      /\ frame' = [frame EXCEPT
                             ![p].refresh = "ok",
                             ![p].ret = frame[p].user_id \in admin_ids]
                      /\ Goto(p, "done")
             ELSE /\ frame' = [frame EXCEPT
                         ![p].refresh = "raised",
                         ![p].calls = Append(@, "get_chat_member")]
                  /\ Goto(p, "k_member")
                  /\ UNCHANGED ADMIN_CACHE
    /\ UNCHANGED <<handlerVars, budget, workerVars, now, chat_admins>>

\* is_admin called directly: get_chat_member is issued
IsAdminCall(p) ==
    /\ pc[p] = "idle"
    /\ budget > 0
    /\ budget' = budget - 1
    /\ \E c \in Chats, u \in Users :
          frame' = [frame EXCEPT ![p] =
              [NoFrame EXCEPT !.kind = "is_admin", !.chat_id = c,
                              !.user_id = u,
                              !.calls = <<"get_chat_member">>]]
    /\ Goto(p, "k_member")
    /\ UNCHANGED <<handlerVars, faults, workerVars, cacheVars>>

\* get_chat_member returns or raises
IsAdminMember(p) ==
    /\ pc[p] = "k_member"
    /\ \E ok \in Outcomes :
          /\ Spend(ok)
          /\ frame' = [frame EXCEPT
                 ![p].member = IF ok THEN "ok" ELSE "raised",
                 ![p].ret = is_admin(ok, member_status(chat_admins,
                                frame[p].chat_id, frame[p].user_id))]
    /\ Goto(p, "done")
    /\ UNCHANGED <<handlerVars, budget, workerVars, cacheVars>>

\* time passes
Tick ==
    /\ now + TickSeconds <= MaxTime
    /\ now' = now + TickSeconds
    /\ UNCHANGED <<handlerVars, pc, frame, budget, faults, workerVars,
                   ADMIN_CACHE, chat_admins>>

\* the platform promotes or demotes a user of a chat
MembershipChange ==
    /\ budget > 0
    /\ budget' = budget - 1
    /\ \E c \in Chats, u \in Users :
          chat_admins' = [chat_admins EXCEPT ![c] =
              IF u \in @ THEN @ \ {u} ELSE @ \cup {u}]
    /\ UNCHANGED <<handlerVars, pc, frame, faults, workerVars, ADMIN_CACHE,
                   now>>

\* lookups running as concurrent coroutines
CacheStep(p) ==
    \/ CachedLookup(p)
    \/ CachedRefresh(p)
    \/ IsAdminCall(p)
    \/ IsAdminMember(p)
    \/ Finish(p)

\* an empty cache; user 42 administers every chat
InitCache ==
    /\ InitWith(<<>>, MaxLookups, MaxFaults + 1)
    /\ enqueue_task
    /\ WorkerIdle
    /\ ADMIN_CACHE = <<>>
    /\ now = 0
    /\ chat_admins = [c \in Chats |-> {42}]

NextCache ==
    \/ \E p \in Procs : CacheStep(p)
    \/ Tick
    \/ MembershipChange

SpecCache == InitCache /\ [][NextCache]_vars

(***************************************************************************)
(* moderation.handle_appeal_submission(update, context)                    *)
(***************************************************************************)
\* update.message.text or "", "" when the update has no message
AppealTexts == {"", "sorry"}

\* if enqueue_task: enqueue evaluate_appeal_sync; else await
\* run_in_executor(evaluate_appeal_sync); inside try/except
AppealSubmission(p) ==
    /\ pc[p] = "idle"
    /\ budget > 0
    /\ budget' = budget - 1
    /\ \E text \in AppealTexts :
          LET f == [NoFrame EXCEPT !.kind = "appeal_submission"]
          IN  IF enqueue_task
              THEN \E ok \in Outcomes :
                      /\ Spend(ok)
                      /\ queue' = enqueue_task_call(queue,
                                      Job("moderation.evaluate_appeal_sync",
                                          <<text>>),
                                      ok)
                      /\ frame' = [frame EXCEPT ![p] =
                             [f EXCEPT !.enq = IF ok THEN "ok" ELSE "failed"]]
                      /\ UNCHANGED inline_runs
              ELSE /\ inline_runs' = inline_runs + 1
                   /\ frame' = [frame EXCEPT ![p] =
                          [f EXCEPT !.enq = "unavailable", !.inline = TRUE]]
                   /\ UNCHANGED <<queue, faults>>
    /\ Goto(p, "done")
    /\ UNCHANGED <<appeal_counts, appeals, approved_users, sent, enqueue_task,
                   stored0, started, clean, attempts, since_reset, last_op>>
    /\ UNCHANGED <<workerVars, cacheVars>>

\* the handlers of the request-serving process that dispatch classification
DispatchStep(p) ==
    \/ MessageGate(p)
    \/ MessageEnqueue(p)
    \/ AppealSubmission(p)
    \/ AppealLog(p)
    \/ AppealEnqueue(p)
    \/ AppealIncrement(p)
    \/ AppealNotify(p)
    \/ Finish(p)

InitDispatch ==
    InitWith(<<>>, MaxDispatchCalls, MaxFaults) /\ WorkerIdle /\ CacheIdle

NextDispatch == \E p \in Procs : DispatchStep(p)

SpecDispatch == InitDispatch /\ [][NextDispatch]_vars

\* handle_appeal alone, invoked concurrently on a store that holds earlier
\* counts
AppealStep(p) ==
    \/ AppealLog(p)
    \/ AppealEnqueue(p)
    \/ AppealIncrement(p)
    \/ AppealNotify(p)
    \/ Finish(p)

NextAppeal == \E p \in Procs : AppealStep(p)

SpecAppeal == Init /\ [][NextAppeal]_vars

(***************************************************************************)
(* Properties                                                              *)
(***************************************************************************)
Handling(p, kind) == frame[p].kind = kind

\* handle_appeal invocations for u that have not yet executed the increment
Pending(u) ==
    {p \in Procs : /\ Handling(p, "appeal")
                   /\ frame[p].user_id = u
                   /\ pc[p] \in {"a_enqueue", "a_inc"}}

\* the notifications about user u that were delivered
SentAbout(u) == {n \in BagToSet(sent) : n.user_id = u}

C2_OncePerCrossing == \A u \in Users : attempts[u] <= 1

\* "appeal_approve:<u>:<c>", written out
PrefixedToken(u, c) ==
    <<"a", "p", "p", "e", "a", "l", "_">>
        \o <<"a", "p", "p", "r", "o", "v", "e", ":">>
        \o IntToStr(u) \o <<":">> \o IntToStr(c)

\* "approve:<u>:<c>", written out
BareToken(u, c) ==
    <<"a", "p", "p", "r", "o", "v", "e", ":">>
        \o IntToStr(u) \o <<":">> \o IntToStr(c)

\* the k-th sequential handle_appeal for a user who had no counter, with
\* every collaborator succeeding, has just returned: the counter is k, the
\* call returned handled = (k = THRESHOLD), nothing was sent before the
\* THRESHOLD-th call and exactly one notification, carrying token(u, c),
\* after it
ScenarioHolds(token(_, _)) ==
    \A p \in Procs :
        (pc[p] = "done" /\ Handling(p, "appeal") /\ clean[frame[p].user_id]
            /\ started[frame[p].user_id] <= APPEAL_NOTIFY_THRESHOLD) =>
        LET u == frame[p].user_id
            k == started[u]
        IN  /\ Count(appeal_counts, u) = k
            /\ frame[p].count = k
            /\ k < APPEAL_NOTIFY_THRESHOLD =>
                  /\ frame[p].ret = FALSE
                  /\ SentAbout(u) = {}
                  /\ attempts[u] = 0
            /\ k = APPEAL_NOTIFY_THRESHOLD =>
                  /\ frame[p].ret = TRUE
                  /\ attempts[u] = 1
                  /\ SentAbout(u) =
                        {[to |-> frame[p].admin_id, user_id |-> u,
                          chat_id |-> frame[p].chat_id, count |-> k,
                          callback_data |-> token(u, frame[p].chat_id)]}
                  /\ \A n \in SentAbout(u) : CopiesIn(n, sent) = 1

\* C3 (amended): the k-th sequential submitAppeal leaves the counter at k,
\* returns handled=false without notifying for k < THRESHOLD, and the
\* THRESHOLD-th returns handled=true with exactly one notification, whose
\* token is "appeal_approve:<u>:<c>".
C3_Scenario == ScenarioHolds(PrefixedToken)

\* C3 (as claimed): the same with the token "approve:<u>:<c>".
C3_Original == ScenarioHolds(BareToken)

\* the fourth appeal of user 42 in chat 100 has returned handled=true
C3_Witness ==
    /\ pc[1] = "done" /\ Handling(1, "appeal")
    /\ frame[1].user_id = 42 /\ frame[1].chat_id = 100
    /\ clean[42] /\ started[42] = 4
    /\ frame[1].count = 4 /\ frame[1].ret = TRUE
    /\ Count(appeal_counts, 42) = 4
    /\ \E n \in SentAbout(42) :
          n.callback_data =
             <<"a", "p", "p", "e", "a", "l", "_", "a", "p", "p", "r", "o", "v",
               "e", ":", "4", "2", ":", "1", "0", "0">>

\* the approval document handle_appeal_callback logs for (u, c)
ApprovalDoc(u, c) ==
    [user_id |-> u, chat_id |-> c, appeal_text |-> "Approved by admin",
     approved |-> TRUE]

\* C4: handle_appeal_callback is idempotent on the counter store.  A reset
\* that succeeds leaves the user's counter absent and every other counter as
\* it was; on a counter that is already absent it changes nothing (and is a
\* success, not an error); the log step of every call inserts exactly one
\* document with approved=true.
C4_Idempotent ==
    [][\A p \in Procs :
          /\ (pc[p] = "c_reset" /\ frame'[p].reset = "ok") =>
                LET u == frame[p].user_id
                IN  /\ u \notin DOMAIN appeal_counts'
                    /\ pc'[p] = "c_ack"
                    /\ u \notin DOMAIN appeal_counts =>
                          appeal_counts' = appeal_counts
                    /\ \A v \in Users \ {u} :
                          Count(appeal_counts', v) = Count(appeal_counts, v)
          /\ (pc[p] = "c_log" /\ frame'[p].log = "ok") =>
                LET d == ApprovalDoc(frame[p].user_id, frame[p].chat_id)
                IN  /\ CopiesIn(d, appeals') = CopiesIn(d, appeals) + 1
                    /\ BagCardinality(appeals') = BagCardinality(appeals) + 1
      ]_vars

\* the same well-formed payload was handled twice: the second reset found the
\* counter absent, the counter is absent and the log holds two approvals
C4_Witness ==
    /\ pc[1] = "done" /\ pc[2] = "done"
    /\ Handling(1, "callback") /\ Handling(2, "callback")
    /\ frame[1].data = frame[2].data
    /\ frame[1].reset = "ok" /\ frame[2].reset = "ok"
    /\ frame[1].log = "ok" /\ frame[2].log = "ok"
    /\ frame[1].reply = "approved" /\ frame[2].reply = "approved"
    /\ ~frame[1].was_absent /\ frame[2].was_absent
    /\ frame[1].user_id \notin DOMAIN appeal_counts
    /\ CopiesIn(ApprovalDoc(frame[1].user_id, frame[1].chat_id), appeals) = 2

\* C5: once a user's counter was deleted by handle_appeal_callback, the
\* stored count is the number of increments made since (absent right after
\* the reset whatever the count was, 1 after the next handle_appeal); and a
\* callback whose log step succeeded has put its approved=true document into
\* the log.
C5_FullReset ==
    /\ \A u \in Users :
          since_reset[u] >= 0 => Count(appeal_counts, u) = since_reset[u]
    /\ \A p \in Procs :
          (Handling(p, "callback") /\ frame[p].log = "ok") =>
              CopiesIn(ApprovalDoc(frame[p].user_id, frame[p].chat_id),
                       appeals) >= 1

\* a counter found at THRESHOLD - 1 was reset and the next appeal of the user
\* has set it to 1
C5_Witness ==
    \E u \in Users, p \in Procs :
        /\ Count(stored0, u) = APPEAL_NOTIFY_THRESHOLD - 1
        /\ since_reset[u] = 1
        /\ Count(appeal_counts, u) = 1
        /\ pc[p] = "done" /\ Handling(p, "appeal")
        /\ frame[p].user_id = u /\ frame[p].count = 1
        /\ \E c \in Chats : CopiesIn(ApprovalDoc(u, c), appeals) = 1

\* payloads with the handler's prefix that it rejects
RejectedData == {TokenTwoFields, TokenBadId}

\* payloads without the handler's prefix
ForeignData == {TokenNoPrefix, TokenNoPrefixShort}

\* p enters handle_appeal_callback in this step with payload in D
Receives(p, D) ==
    /\ pc[p] = "idle"
    /\ frame'[p].kind = "callback"
    /\ frame'[p].data \in D

\* C6 (amended): a payload that starts with "appeal_approve:" and has fewer
\* than three fields or a non-integer id makes the handler return with no
\* counter, allowlist or log change, having reported "Invalid callback
\* payload." / "Invalid user/chat id in callback." to the admin with
\* edit_message_text (the report arrives when that call succeeds); a payload
\* without that prefix, such as "approve:abc", is ignored: nothing is changed
\* and nothing is reported.
C6_Malformed ==
    [][\A p \in Procs :
          Receives(p, RejectedData \cup ForeignData) =>
             /\ pc'[p] = "done"
             /\ UNCHANGED <<appeal_counts, approved_users, appeals>>
             /\ (frame'[p].data \in RejectedData /\ frame'[p].parse # "none") =>
                   /\ frame'[p].edit # "none"
                   /\ frame'[p].edit = "ok" =>
                         frame'[p].reply =
                            IF frame'[p].data = TokenTwoFields
                            THEN "invalid_payload" ELSE "invalid_id"
             /\ frame'[p].data \in ForeignData =>
                   /\ frame'[p].edit = "none"
                   /\ frame'[p].reply = "none"
      ]_vars

\* C6 (as claimed): every malformed token, "approve:abc" included, is
\* reported to the admin whenever the platform calls succeed, and changes
\* no counter, allowlist or log state.
C6_Original ==
    [][\A p \in Procs :
          (/\ Receives(p, RejectedData \cup {TokenNoPrefixShort})
           /\ frame'[p].parse # "none"
           /\ frame'[p].edit # "failed") =>
             /\ pc'[p] = "done"
             /\ UNCHANGED <<appeal_counts, approved_users, appeals>>
             /\ frame'[p].reply \in {"invalid_payload", "invalid_id"}
      ]_vars

\* "appeal_approve:abc" was rejected and reported, "approve:abc" was ignored,
\* and the stored counters are the ones found
C6_Witness ==
    /\ pc[1] = "done" /\ pc[2] = "done"
    /\ frame[1].data = TokenTwoFields /\ frame[1].reply = "invalid_payload"
    /\ frame[2].data = TokenNoPrefixShort /\ frame[2].reply = "none"
    /\ frame[2].parse = "ignored"
    /\ appeal_counts = stored0 /\ DOMAIN stored0 # {}
    /\ appeals = EmptyBag

C8_IncrementFailureVisible ==
    \A p, q \in Procs :
        (/\ pc[p] = "done" /\ Handling(p, "appeal") /\ frame[p].inc = "failed"
         /\ pc[q] = "done" /\ Handling(q, "appeal") /\ frame[q].inc = "ok") =>
            frame[p].ret # frame[q].ret


\* C9: is_user_approved_db(chat, user) reflects the latest completed
\* allowlist mutation on that key: it is true exactly when the last write on
\* the key that has completed is an approve_user_db, and false when it is an
\* unapprove_user_db of the key or an unapprove_all_db of its chat (or when
\* the key was never written), under every interleaving of the commands.
C9_ReadAfterWrite ==
    \A key \in Chats \X Users :
        is_user_approved_db(approved_users, key[1], key[2])
            <=> last_op[key] = "approve"

\* /unapproveall has returned in a chat that held approvals: every key of
\* the chat now reads false, while a key approved in the other chat still
\* reads true
C9_Witness ==
    \E p \in Procs, c \in Chats, u \in Users :
        /\ pc[p] = "done" /\ Handling(p, "unapprove_all")
        /\ frame[p].removed >= 1
        /\ \A v \in Users :
              ~is_user_approved_db(approved_users, frame[p].chat_id, v)
        /\ \E v \in Users : last_op[<<frame[p].chat_id, v>>] = "unapprove"
        /\ c # frame[p].chat_id
        /\ last_op[<<c, u>>] = "approve"
        /\ is_user_approved_db(approved_users, c, u)

\* C10 (as claimed): handle_message consults the allowlist before dispatch:
\* when it found the sender approved it enqueues nothing and runs no
\* classification, and when it found a user in a group chat not approved it
\* attempts exactly one enqueue of the classification job.
C10_ConsultedBeforeDispatch ==
    \A p \in Procs :
        (pc[p] = "done" /\ Handling(p, "message")) =>
            /\ frame[p].gate = "approved" =>
                  (frame[p].enq = "none" /\ ~frame[p].inline)
            /\ frame[p].gate = "not_approved" =>
                  (frame[p].enq \in {"ok", "failed"} /\ ~frame[p].inline)


\* C11: when the enqueue of the classification job raises, handle_message
\* returns normally (the exception does not leave the handler), no job is on
\* the queue for the message, no classification runs in the handler, and the
\* counters, the allowlist and the appeal log are unchanged.
C11_FailedDispatchAbsorbed ==
    [][\A p \in Procs :
          (/\ pc[p] = "m_enqueue" /\ pc'[p] = "done"
           /\ frame'[p].enq = "failed") =>
             /\ ~frame'[p].raised
             /\ ~frame'[p].inline
             /\ queue' = queue
             /\ inline_runs' = inline_runs
             /\ UNCHANGED <<appeal_counts, approved_users, appeals, sent>>
      ]_vars

\* a message of a user who is not approved reached the dispatch, the enqueue
\* raised, and the handler has returned with nothing enqueued and nothing run
C11_Witness ==
    \E p \in Procs :
        /\ pc[p] = "done" /\ Handling(p, "message")
        /\ frame[p].gate = "not_approved"
        /\ frame[p].enq = "failed"
        /\ ~frame[p].raised
        /\ queue = EmptyBag
        /\ inline_runs = 0

\* the action kinds of a verdict
ActionKinds == {"allow", "warn", "mute", "ban", "delete"}

\* the call of moderate_message_sync / evaluate_appeal_sync that p made failed:
\* the models could not be initialised, or generate_content raised
ClassifierFailed(p) == frame[p].init = "raised" \/ frame[p].call = "raised"

\* C12 (as claimed): whenever the classification call of moderate_message_sync
\* fails, the function returns the fixed default verdict (action allow,
\* severity 1, should_delete false, category other) and raises nothing to
\* its caller.
C12_DefaultOnFailure ==
    \A p \in Procs :
        (/\ pc[p] = "done" /\ Handling(p, "moderate_message_sync")
         /\ ClassifierFailed(p)) =>
            /\ ~frame[p].raised
            /\ frame[p].result = default_verdict

\* the value conforms to the closed verdict shape
ConformsVerdict(v) ==
    /\ v.type = "dict"
    /\ "action" \in DOMAIN v.items
    /\ v.items["action"].type = "str"
    /\ v.items["action"].v \in ActionKinds

\* C13 (as claimed): every verdict moderate_message_sync returns has an
\* action in {allow, warn, mute, ban, delete}; a reply that does not parse to
\* such a verdict is replaced by the default verdict.
C13_ClosedVerdictShape ==
    \A p \in Procs :
        (/\ pc[p] = "done" /\ Handling(p, "moderate_message_sync")
         /\ ~frame[p].raised) =>
            ConformsVerdict(frame[p].result)

\* the reply of the appeal model does not parse to a JSON object
Unparseable(text) ==
    LET j == json_loads(strip(text)) IN ~(j.ok /\ j.val.type = "dict")

\* C14 (as claimed): whenever the call of evaluate_appeal_sync fails or the
\* reply is unparseable, the function returns a result with approve = false
\* and raises nothing to its caller.
C14_AppealDefaultOnFailure ==
    \A p \in Procs :
        (/\ pc[p] = "done" /\ Handling(p, "evaluate_appeal_sync")
         /\ (ClassifierFailed(p) \/ Unparseable(frame[p].text))) =>
            /\ ~frame[p].raised
            /\ frame[p].result = default_appeal

\* C15: is_admin_cached never fails open: when get_chat_administrators
\* raises, the entry is left as it is and the answer is the one of is_admin,
\* the single get_chat_member lookup; when get_chat_member raises, is_admin
\* and is_admin_cached answer False.  A lookup in which a platform call
\* raised answers True only if get_chat_member then returned and reported
\* the user an administrator.
C15_NeverFailsOpen ==
    [][\A p \in Procs :
          /\ (pc[p] = "k_refresh" /\ frame'[p].refresh = "raised") =>
                /\ pc'[p] = "k_member"
                /\ ADMIN_CACHE' = ADMIN_CACHE
                /\ frame'[p].calls =
                      <<"get_chat_administrators", "get_chat_member">>
          /\ (pc[p] = "k_member" /\ pc'[p] = "done") =>
                /\ frame'[p].member = "raised" => frame'[p].ret = FALSE
                /\ frame'[p].member = "ok" =>
                      (frame'[p].ret <=>
                          frame[p].user_id \in chat_admins[frame[p].chat_id])
      ]_vars

\* the refresh raised, then get_chat_member raised too, and is_admin_cached
\* answered False about a user who is an administrator
C15_Witness ==
    \E p \in Procs :
        /\ pc[p] = "done" /\ Handling(p, "is_admin_cached")
        /\ frame[p].refresh = "raised" /\ frame[p].member = "raised"
        /\ frame[p].ret = FALSE
        /\ frame[p].user_id \in chat_admins[frame[p].chat_id]
        /\ frame[p].chat_id \notin DOMAIN ADMIN_CACHE

\* C16: once a refresh has stored an entry for a chat, an is_admin_cached
\* lookup for the chat that reads a time before the entry's expiry is
\* answered from the cached administrator set and issues no platform call,
\* whatever the platform's administrators are by then.
C16_CacheHitNoCall ==
    [][\A p \in Procs :
          (/\ pc[p] = "idle" /\ frame'[p].kind = "is_admin_cached"
           /\ frame'[p].chat_id \in DOMAIN ADMIN_CACHE
           /\ ADMIN_CACHE[frame'[p].chat_id].expires > now) =>
             /\ pc'[p] = "done"
             /\ frame'[p].calls = <<>>
             /\ frame'[p].ret <=>
                   frame'[p].user_id \in ADMIN_CACHE[frame'[p].chat_id].admins
             /\ ADMIN_CACHE' = ADMIN_CACHE
      ]_vars

\* time has passed since the refresh, the user has been demoted, and a
\* lookup before the expiry still answered True from the cache without a call
C16_Witness ==
    \E p \in Procs :
        /\ pc[p] = "done" /\ Handling(p, "is_admin_cached")
        /\ frame[p].hit /\ frame[p].calls = <<>>
        /\ frame[p].started_at > 0
        /\ frame[p].ret = TRUE
        /\ frame[p].user_id \notin chat_admins[frame[p].chat_id]

\* C17 (as claimed): concurrent is_admin_cached lookups of one chat whose
\* entry is missing or expired issue one get_chat_administrators call between
\* them: no two of them await the refresh of the same chat at once.
C17_SingleRefresh ==
    \A p, q \in Procs :
        (/\ p # q
         /\ pc[p] = "k_refresh" /\ pc[q] = "k_refresh") =>
            frame[p].chat_id # frame[q].chat_id

\* C18 (as claimed): handle_message, handle_appeal_submission and
\* handle_appeal only enqueue and return: none of them runs, or waits for, a
\* classification call.
C18_OffRequestPath ==
    /\ inline_runs = 0
    /\ \A p \in Procs :
          frame[p].kind \in {"message", "appeal_submission", "appeal"} =>
             ~frame[p].inline

\* the step is one of p
Moves(p) == pc'[p] # pc[p]

\* C19: the steps of handle_appeal run in the order log, enqueue, increment,
\* notify, each behind its own try/except: whether log_appeal raised, and
\* whether the enqueue raised or enqueue_task is unavailable, the handler
\* goes on to the increment, a successful increment adds exactly 1 to the
\* user's stored counter, and the threshold test is made on the count it
\* returned.
C19_StepsIndependentlyGuarded ==
    [][\A p \in Procs :
          /\ (pc[p] = "idle" /\ frame'[p].kind = "appeal") =>
                /\ frame'[p].log \in {"ok", "failed"}
                /\ pc'[p] = "a_enqueue"
          /\ (pc[p] = "a_enqueue" /\ Moves(p)) =>
                /\ frame'[p].enq \in {"ok", "failed", "unavailable"}
                /\ pc'[p] = "a_inc"
          /\ (pc[p] = "a_inc" /\ Moves(p) /\ frame'[p].inc = "ok") =>
                /\ pc'[p] = "a_notify"
                /\ Count(appeal_counts', frame[p].user_id)
                      = Count(appeal_counts, frame[p].user_id) + 1
                /\ frame'[p].count = Count(appeal_counts', frame[p].user_id)
          /\ (pc[p] = "a_notify" /\ Moves(p) /\ frame[p].inc = "ok") =>
                /\ pc'[p] = "done"
                /\ frame'[p].notify # "none"
                      <=> frame[p].count >= APPEAL_NOTIFY_THRESHOLD
      ]_vars

\* log_appeal raised in a call, the counter still went from 3 to 4 and the
\* admin was notified
C19_Witness ==
    \E p \in Procs :
        /\ pc[p] = "done" /\ Handling(p, "appeal")
        /\ frame[p].log = "failed"
        /\ frame[p].inc = "ok"
        /\ frame[p].count = APPEAL_NOTIFY_THRESHOLD
        /\ Count(stored0, frame[p].user_id) = APPEAL_NOTIFY_THRESHOLD - 1
        /\ frame[p].notify = "sent" /\ frame[p].ret = TRUE
        /\ appeals = EmptyBag

\* C20: when the increment raises, handle_appeal takes the count to be 1: the
\* stored counter is left as it was, the handler goes on to the threshold
\* test and returns without raising, and a notification is attempted if and
\* only if APPEAL_NOTIFY_THRESHOLD <= 1, whatever count is stored.
C20_FallbackCountOne ==
    [][\A p \in Procs :
          /\ (pc[p] = "a_inc" /\ Moves(p) /\ frame'[p].inc = "failed") =>
                /\ frame'[p].count = 1
                /\ appeal_counts' = appeal_counts
                /\ pc'[p] = "a_notify"
          /\ (pc[p] = "a_notify" /\ Moves(p) /\ frame[p].inc = "failed") =>
                /\ pc'[p] = "done"
                /\ ~frame'[p].raised
                /\ frame'[p].notify # "none" <=> APPEAL_NOTIFY_THRESHOLD <= 1
                /\ appeal_counts' = appeal_counts
                /\ (APPEAL_NOTIFY_THRESHOLD > 1) =>
                      (frame'[p].ret = FALSE /\ sent' = sent)
      ]_vars

\* the increment raised for a user whose stored counter is one below the
\* threshold: the counter is unchanged, no notification was attempted and the
\* call returned False
C20_Witness ==
    \E p \in Procs :
        /\ pc[p] = "done" /\ Handling(p, "appeal")
        /\ frame[p].inc = "failed"
        /\ frame[p].count = 1
        /\ Count(appeal_counts, frame[p].user_id) = APPEAL_NOTIFY_THRESHOLD - 1
        /\ frame[p].notify = "none"
        /\ frame[p].ret = FALSE
        /\ ~frame[p].raised

\* C21: on a miss or an expired entry is_admin_cached issues
\* get_chat_administrators; when the call returns, the entry of the chat is
\* the fetched administrator set with expires = now + CACHE_TTL, now being
\* the time read when the lookup started, and the answer is membership in the
\* fetched set, whatever the previous entry held.
C21_RefreshStoresAndAnswersFresh ==
    [][\A p \in Procs :
          /\ (/\ pc[p] = "idle" /\ frame'[p].kind = "is_admin_cached"
              /\ ~(/\ frame'[p].chat_id \in DOMAIN ADMIN_CACHE
                   /\ ADMIN_CACHE[frame'[p].chat_id].expires > now)) =>
                /\ pc'[p] = "k_refresh"
                /\ frame'[p].started_at = now
                /\ frame'[p].calls = <<"get_chat_administrators">>
          /\ (pc[p] = "k_refresh" /\ frame'[p].refresh = "ok") =>
                LET c == frame[p].chat_id
                IN  /\ pc'[p] = "done"
                    /\ c \in DOMAIN ADMIN_CACHE'
                    /\ ADMIN_CACHE'[c].admins = chat_admins[c]
                    /\ ADMIN_CACHE'[c].expires = frame[p].started_at + 120
                    /\ frame'[p].ret <=> frame[p].user_id \in chat_admins[c]
                    /\ \A d \in DOMAIN ADMIN_CACHE \ {c} :
                          d \in DOMAIN ADMIN_CACHE'
                          /\ ADMIN_CACHE'[d] = ADMIN_CACHE[d]
      ]_vars

\* a lookup at time 0 refreshed and answered True; the user was demoted and
\* the entry expired; a later lookup refreshed again, answered False from the
\* fetched set and stored it with its own expiry
C21_Witness ==
    \E p, q \in Procs :
        /\ pc[p] = "done" /\ Handling(p, "is_admin_cached")
        /\ pc[q] = "done" /\ Handling(q, "is_admin_cached")
        /\ frame[q].refresh = "ok" /\ frame[q].started_at = 0
        /\ frame[q].ret = TRUE
        /\ frame[p].chat_id = frame[q].chat_id
        /\ frame[p].user_id = frame[q].user_id
        /\ frame[p].refresh = "ok" /\ frame[p].started_at >= CACHE_TTL
        /\ frame[p].ret = FALSE
        /\ ADMIN_CACHE[frame[p].chat_id] =
              [admins |-> chat_admins[frame[p].chat_id],
               expires |-> frame[p].started_at + CACHE_TTL]

\* C22: in every reachable state a user's appeal counter is absent or at
\* least 1, and a step changes it only by adding exactly 1 (the increment of
\* handle_appeal, which creates it at 1 when absent) or by deleting it (the
\* reset of handle_appeal_callback): it is never decremented or set.
C22_CounterIncrementOrDelete ==
    /\ [](\A u \in DOMAIN appeal_counts : appeal_counts[u] >= 1)
    /\ [][\A u \in Users :
             Count(appeal_counts', u) # Count(appeal_counts, u) =>
                \/ /\ u \in DOMAIN appeal_counts'
                   /\ appeal_counts'[u] = Count(appeal_counts, u) + 1
                   /\ \E p \in Procs : pc[p] = "a_inc" /\ pc'[p] = "a_notify"
                                       /\ frame[p].user_id = u
                \/ /\ u \in DOMAIN appeal_counts
                   /\ u \notin DOMAIN appeal_counts'
                   /\ \E p \in Procs : pc[p] = "c_reset" /\ pc'[p] = "c_ack"
                                       /\ frame[p].user_id = u
         ]_vars

\* one user's counter was deleted by an approval while another user's
\* counter was created at 1 by an appeal
C22_Witness ==
    \E p, q \in Procs :
        /\ pc[p] = "done" /\ Handling(p, "callback")
        /\ frame[p].reset = "ok" /\ ~frame[p].was_absent
        /\ frame[p].user_id \in DOMAIN stored0
        /\ frame[p].user_id \notin DOMAIN appeal_counts
        /\ pc[q] = "done" /\ Handling(q, "appeal")
        /\ frame[q].inc = "ok"
        /\ frame[q].user_id \notin DOMAIN stored0
        /\ Count(appeal_counts, frame[q].user_id) = 1

(***************************************************************************)
(* Appeals, approvals by callback and allowlist commands on one store,     *)
(* handled one after the other                                             *)
(***************************************************************************)
MaxLogCalls == 3

InitLog == InitWith(<<>>, MaxLogCalls, MaxFaults) /\ WorkerIdle /\ CacheIdle

LogStep(p) ==
    \/ AppealLog(p)
    \/ AppealEnqueue(p)
    \/ AppealIncrement(p)
    \/ AppealNotify(p)
    \/ CallbackParse(p)
    \/ CallbackLog(p)
    \/ CallbackReset(p)
    \/ CallbackAck(p)
    \/ ApproveCmd(p)
    \/ ApproveCount(p)
    \/ UnapproveCmd(p)
    \/ UnapproveAllCmd(p)
    \/ Finish(p)

NextLog == LogStep(1)

SpecLog == InitLog /\ [][NextLog]_vars

\* C23: the appeals collection is append-only.  No step of handle_appeal,
\* handle_appeal_callback or of the allowlist commands removes or changes a
\* document already in it; a log step of handle_appeal that succeeds adds
\* exactly one document with approved=false, a log step of
\* handle_appeal_callback (reached only by a well-formed payload) that
\* succeeds adds exactly one document with approved=true, and no other step
\* changes the collection.
C23_LogAppendOnly ==
    [][/\ \A d \in BagToSet(appeals) : CopiesIn(d, appeals') >= CopiesIn(d, appeals)
       /\ \A p \in Procs :
             /\ (pc[p] = "idle" /\ frame'[p].kind = "appeal"
                                /\ frame'[p].log = "ok") =>
                   appeals' = appeals (+) SetToBag({AppealDoc(
                       frame'[p].user_id, frame'[p].chat_id, "reason", FALSE)})
             /\ (pc[p] = "c_log" /\ pc'[p] = "c_reset"
                                 /\ frame'[p].log = "ok") =>
                   appeals' = appeals (+) SetToBag({ApprovalDoc(
                       frame[p].user_id, frame[p].chat_id)})
       /\ appeals' # appeals =>
             \E p \in Procs :
                 /\ frame'[p].log = "ok"
                 /\ \/ pc[p] = "idle" /\ frame'[p].kind = "appeal"
                    \/ pc[p] = "c_log" /\ pc'[p] = "c_reset"
      ]_vars

\* an appeal was logged, its approval was logged for the same user and chat,
\* then an allowlist command changed the allowlist: the log holds both
\* documents
C23_Witness ==
    \E u \in Users, c \in Chats :
        /\ CopiesIn(AppealDoc(u, c, "reason", FALSE), appeals) = 1
        /\ CopiesIn(ApprovalDoc(u, c), appeals) = 1
        /\ BagCardinality(appeals) = 2
        /\ pc[1] = "done" /\ Handling(1, "approve")
        /\ DOMAIN approved_users # {}

(***************************************************************************)
(* The allowlist commands called concurrently by two admins                *)
(***************************************************************************)
MaxAllowCalls == 3

Approvers == {1, 2}

\* approve_cmd called by either admin
ApproveCmdBy(p) == approve_cmd(p, Approvers)

AllowStep(p) ==
    \/ ApproveCmdBy(p)
    \/ ApproveCount(p)
    \/ UnapproveCmd(p)
    \/ UnapproveAllCmd(p)
    \/ Finish(p)

InitAllow == InitWith(<<>>, MaxAllowCalls, MaxFaults) /\ WorkerIdle /\ CacheIdle

NextAllow == \E p \in Procs : AllowStep(p)

SpecAllow == InitAllow /\ [][NextAllow]_vars

\* the process's step is the store call of approve_cmd
Approves(p) == pc[p] = "idle" /\ pc'[p] = "ap_count"

\* C24: approve_user_db is an idempotent upsert keyed by (chat_id, user_id).
\* Whatever calls came before, sequentially or concurrently, a call leaves
\* one record for the pair, carrying the approver of this (the latest) call;
\* count_approved_db of the chat grows by one when the pair was absent and
\* stays when it was present, and every other record is untouched.  An
\* unapprove of a pair that is absent answers normally, raises nothing and
\* leaves the allowlist as it was.
C24_ApproveIdempotentUpsert ==
    [][\A p \in Procs :
          /\ Approves(p) =>
                LET c == frame'[p].chat_id
                    u == frame'[p].user_id
                IN  /\ is_user_approved_db(approved_users', c, u)
                    /\ approved_users'[<<c, u>>] = frame'[p].admin_id
                    /\ count_approved_db(approved_users', c) =
                          count_approved_db(approved_users, c)
                          + (IF is_user_approved_db(approved_users, c, u)
                             THEN 0 ELSE 1)
                    /\ DOMAIN approved_users' = DOMAIN approved_users \cup {<<c, u>>}
                    /\ \A key \in DOMAIN approved_users \ {<<c, u>>} :
                          approved_users'[key] = approved_users[key]
          /\ (/\ pc[p] = "idle" /\ frame'[p].kind = "unapprove"
              /\ frame'[p].reply = "unapproved"
              /\ ~is_user_approved_db(approved_users, frame'[p].chat_id,
                                      frame'[p].user_id)) =>
                /\ approved_users' = approved_users
                /\ ~frame'[p].raised
      ]_vars

\* two admins approved the same user in the same chat, one call after the
\* other's store write: the record carries the second approver and both calls
\* counted one approved user in the chat
C24_Witness ==
    \E c \in Chats, u \in Users :
        /\ pc[1] = "done" /\ pc[2] = "done"
        /\ Handling(1, "approve") /\ Handling(2, "approve")
        /\ frame[1].chat_id = c /\ frame[2].chat_id = c
        /\ frame[1].user_id = u /\ frame[2].user_id = u
        /\ frame[1].admin_id = 1 /\ frame[2].admin_id = 2
        /\ frame[1].reply = "approved" /\ frame[2].reply = "approved"
        /\ frame[1].total = 1 /\ frame[2].total = 1
        /\ is_user_approved_db(approved_users, c, u)
        /\ approved_users[<<c, u>>] = 2
        /\ count_approved_db(approved_users, c) = 1

\* the process's step is the store call of unapprove_all_cmd
Clears(p) ==
    /\ pc[p] = "idle"
    /\ frame'[p].kind = "unapprove_all"
    /\ frame'[p].reply = "cleared"

\* C25: unapprove_all_db(chat) deletes every record of the chat and returns
\* how many it deleted (0 when there was none), which is what
\* count_approved_db(chat) gave just before; afterwards count_approved_db(chat)
\* is 0 and is_user_approved_db(chat, u) is false for every u, and the records
\* of every other chat are as they were.
C25_UnapproveAllFrame ==
    [][\A p \in Procs :
          Clears(p) =>
             LET c == frame'[p].chat_id
             IN  /\ frame'[p].removed = count_approved_db(approved_users, c)
                 /\ count_approved_db(approved_users', c) = 0
                 /\ \A u \in Users : ~is_user_approved_db(approved_users', c, u)
                 /\ \A key \in DOMAIN approved_users :
                       key[1] # c =>
                          /\ key \in DOMAIN approved_users'
                          /\ approved_users'[key] = approved_users[key]
                 /\ DOMAIN approved_users' \subseteq DOMAIN approved_users
      ]_vars

\* a chat with an approved user was cleared while the record of the other
\* chat stayed
C25_Witness ==
    \E p \in Procs :
        /\ pc[p] = "done" /\ Handling(p, "unapprove_all")
        /\ frame[p].reply = "cleared"
        /\ frame[p].removed = 1
        /\ count_approved_db(approved_users, frame[p].chat_id) = 0
        /\ \E c \in Chats \ {frame[p].chat_id} :
              count_approved_db(approved_users, c) = 1

\* how many appeals of the user the log holds, over all chats
LoggedAppeals(u) ==
    LET docs == {d \in BagToSet(appeals) : d.user_id = u /\ ~d.approved}
        RECURSIVE Sum(_)
        Sum(S) == IF S = {} THEN 0
                  ELSE LET d == CHOOSE x \in S : TRUE
                       IN  CopiesIn(d, appeals) + Sum(S \ {d})
    IN  Sum(docs)

\* C26: the appeal counter is one per user, whatever the chat.  While a
\* user's counter was never deleted, it counts the user's appeals of all
\* chats together; the increment of an appeal adds 1 to the user's counter
\* whatever chat the appeal names; a notification carries the chat (and the
\* token of the chat) of the call that sent it, the call whose increment
\* reached the threshold; and the reset of a callback for (u, c) deletes u's
\* counter whatever c is.
C26_CounterPerUserGlobal ==
    /\ [](\A u \in Users :
             (clean[u] /\ pc[1] \in {"idle", "done"}) =>
                 Count(appeal_counts, u) = LoggedAppeals(u))
    /\ [][\A p \in Procs :
             /\ (pc[p] = "a_inc" /\ pc'[p] = "a_notify"
                                 /\ frame'[p].inc = "ok") =>
                   /\ Count(appeal_counts', frame[p].user_id) =
                         Count(appeal_counts, frame[p].user_id) + 1
                   /\ frame'[p].count = Count(appeal_counts', frame[p].user_id)
             /\ (pc[p] = "a_notify" /\ pc'[p] = "done") =>
                   IF frame[p].count >= APPEAL_NOTIFY_THRESHOLD
                   THEN sent' = sent (+) SetToBag({
                            [to |-> frame[p].admin_id,
                             user_id |-> frame[p].user_id,
                             chat_id |-> frame[p].chat_id,
                             count |-> frame[p].count,
                             callback_data |-> callback_data(frame[p].user_id,
                                                             frame[p].chat_id)]})
                   ELSE sent' = sent
             /\ (pc[p] = "c_reset" /\ pc'[p] = "c_ack"
                                   /\ frame'[p].reset = "ok") =>
                   /\ frame[p].user_id \notin DOMAIN appeal_counts'
                   /\ \A v \in Users \ {frame[p].user_id} :
                         Count(appeal_counts', v) = Count(appeal_counts, v)
       ]_vars

\* a user appealed in both chats, the call that reached the threshold sent
\* the notification naming its chat, and a callback naming the other chat
\* deleted the user's counter
C26_Witness ==
    \E u \in Users, c \in Chats : \E d \in Chats \ {c} :
        /\ pc[1] = "done" /\ Handling(1, "callback")
        /\ frame[1].user_id = u /\ frame[1].chat_id = d
        /\ frame[1].reset = "ok" /\ ~frame[1].was_absent
        /\ u \notin DOMAIN appeal_counts
        /\ CopiesIn(AppealDoc(u, c, "reason", FALSE), appeals) >= 1
        /\ CopiesIn(AppealDoc(u, d, "reason", FALSE), appeals) >= 1
        /\ LoggedAppeals(u) = APPEAL_NOTIFY_THRESHOLD
        /\ \E n \in BagToSet(sent) :
              /\ n.user_id = u /\ n.chat_id = c
              /\ n.count = APPEAL_NOTIFY_THRESHOLD

\* the ids the round trip is computed for: -MaxId .. MaxId
MaxId == 120

TokenIds == (0 - MaxId)..MaxId

\* the payload is accepted and gives back the two ids
RoundTrip(user_id, chat_id) ==
    parse_callback(callback_data(user_id, chat_id))
        = [status |-> "ok", user_id |-> user_id, chat_id |-> chat_id]

\* C27: the callback_data handle_appeal puts on the notification's button is
\* accepted by handle_appeal_callback and parses back to the same
\* (user_id, chat_id), for every pair of ids, negative ones included; so a
\* callback that carries the payload of a notification that was sent goes on
\* to the log and reset steps with the user and chat the notification names,
\* and its reset deletes that user's counter.
C27_TokenRoundTrip ==
    /\ \A u \in TokenIds, c \in TokenIds : RoundTrip(u, c)
    /\ [](\A n \in BagToSet(sent) :
             /\ n.callback_data = callback_data(n.user_id, n.chat_id)
             /\ RoundTrip(n.user_id, n.chat_id))
    /\ [][\A p \in Procs : \A n \in BagToSet(sent) :
             /\ (/\ pc[p] = "idle" /\ frame'[p].kind = "callback"
                 /\ frame'[p].data = n.callback_data
                 /\ pc'[p] # "done") =>
                   /\ pc'[p] = "c_log"
                   /\ frame'[p].parse = "ok"
                   /\ frame'[p].user_id = n.user_id
                   /\ frame'[p].chat_id = n.chat_id
             /\ (/\ pc[p] = "c_reset" /\ frame[p].data = n.callback_data
                 /\ frame'[p].reset = "ok") =>
                   n.user_id \notin DOMAIN appeal_counts'
       ]_vars

\* the notification about a user in the chat with the negative id was sent,
\* the callback carrying its payload was handled and the user's counter is
\* gone
C27_Witness ==
    \E n \in BagToSet(sent) :
        /\ n.chat_id < 0
        /\ pc[1] = "done" /\ Handling(1, "callback")
        /\ frame[1].data = n.callback_data
        /\ frame[1].user_id = n.user_id /\ frame[1].chat_id = n.chat_id
        /\ frame[1].reset = "ok" /\ ~frame[1].was_absent
        /\ frame[1].reply = "approved"
        /\ n.user_id \notin DOMAIN appeal_counts

(***************************************************************************)
(* As many concurrent handle_appeal invocations as the threshold, on an    *)
(* empty store, with every collaborator succeeding; the invocations keep   *)
(* what they observed                                                      *)
(***************************************************************************)
Callers == 1..APPEAL_NOTIFY_THRESHOLD

InitRace ==
    /\ appeal_counts = <<>>
    /\ stored0 = <<>>
    /\ appeals = EmptyBag
    /\ approved_users = <<>>
    /\ queue = EmptyBag
    /\ sent = EmptyBag
    /\ enqueue_task = TRUE
    /\ faults = 0
    /\ pc = [p \in Callers |-> "idle"]
    /\ frame = [p \in Callers |-> NoFrame]
    /\ budget = APPEAL_NOTIFY_THRESHOLD
    /\ started = [u \in Users |-> 0]
    /\ clean = [u \in Users |-> TRUE]
    /\ attempts = [u \in Users |-> 0]
    /\ since_reset = [u \in Users |-> -1]
    /\ inline_runs = 0
    /\ last_op = [key \in Chats \X Users |-> "none"]
    /\ WorkerIdle
    /\ CacheIdle

RaceStep(p) ==
    \/ AppealLog(p)
    \/ AppealEnqueue(p)
    \/ AppealIncrement(p)
    \/ AppealNotify(p)

NextRace == \E p \in Callers : RaceStep(p)

SpecRace == InitRace /\ [][NextRace]_vars

\* the invocations for the user that have executed their increment
Incremented(u) ==
    {p \in DOMAIN pc : /\ pc[p] \in {"a_notify", "done"}
                       /\ frame[p].kind = "appeal"
                       /\ frame[p].user_id = u}

C29_ExpiresNeverDecreases ==
    [][\A c \in DOMAIN ADMIN_CACHE :
          /\ c \in DOMAIN ADMIN_CACHE'
          /\ ADMIN_CACHE'[c].expires >= ADMIN_CACHE[c].expires
      ]_vars

\* C30 (as claimed): when handle_appeal_callback has told the admin that the
\* user was approved, the approval is in the stores: the log step inserted
\* the approved=true document and the reset step deleted the user's counter,
\* also when a store call fails during the handling.
C30_AckImpliesDurable ==
    [][\A p \in Procs :
          (/\ pc[p] = "c_ack" /\ pc'[p] = "done"
           /\ frame'[p].reply = "approved") =>
             /\ frame[p].log = "ok"
             /\ frame[p].reset = "ok"
             /\ CopiesIn(ApprovalDoc(frame[p].user_id, frame[p].chat_id),
                         appeals) >= 1
      ]_vars

\* C31 (as claimed): under every interleaving of handle_appeal and
\* handle_appeal_callback for a user, a notification about the user is sent
\* only while the user's stored counter is at least APPEAL_NOTIFY_THRESHOLD;
\* none is sent after the callback deleted the counter, unless later
\* increments brought it back to the threshold.
C31_NotifiedOnlyAtThreshold ==
    [][\A p \in Procs :
          (/\ pc[p] = "a_notify" /\ pc'[p] = "done"
           /\ frame'[p].notify = "sent") =>
             Count(appeal_counts, frame[p].user_id) >= APPEAL_NOTIFY_THRESHOLD
      ]_vars

\* the job handle_message enqueues for the update it handles
MessageJob(f) ==
    Job("moderation.process_message_sync", <<f.update, f.rules_text>>)

\* C32: the allowlist gate of handle_message fails towards moderating.  When
\* should_moderate raises, the handler does not return there and does not
\* raise: it goes on to the dispatch step as for a user who is not approved,
\* where the job is enqueued when the enqueue succeeds (or
\* process_message_sync is run through the executor when enqueue_task is
\* unavailable); a handler that has finished after such an error has been
\* through the dispatch step.
C32_GateFailsTowardsModerating ==
    /\ [](\A p \in Procs :
             (/\ Handling(p, "message") /\ frame[p].gate = "error"
              /\ pc[p] = "done") =>
                 /\ frame[p].enq \in {"ok", "failed", "unavailable"}
                 /\ ~frame[p].raised)
    /\ [][\A p \in Procs :
             /\ (/\ pc[p] = "idle" /\ frame'[p].kind = "message"
                 /\ frame'[p].gate = "error") =>
                   /\ pc'[p] = "m_enqueue"
                   /\ ~frame'[p].raised
             /\ (/\ pc[p] = "m_enqueue" /\ pc'[p] = "done"
                 /\ frame[p].gate = "error") =>
                   /\ ~frame'[p].raised
                   /\ frame'[p].enq = "ok" =>
                         queue' = queue (+) SetToBag({MessageJob(frame[p])})
                   /\ frame'[p].enq = "unavailable" =>
                         inline_runs' = inline_runs + 1
       ]_vars

\* the allowlist read raised for a user who is approved in the chat: the
\* message was enqueued all the same
C32_Witness ==
    \E p \in Procs :
        /\ pc[p] = "done" /\ Handling(p, "message")
        /\ frame[p].gate = "error"
        /\ is_user_approved_db(approved_users, frame[p].chat_id,
                               frame[p].user_id)
        /\ frame[p].enq = "ok"
        /\ CopiesIn(MessageJob(frame[p]), queue) = 1

=============================================================================
